---- MODULE Spec2Model ----
(***************************************************************************)
(* Quantum tic-tac-toe match engine (QuantumTicTacToeGame.ts, the first   *)
(* class of the file: lines 25-455).  One match, two seats (x, o), three  *)
(* boards A, B, C.  The engine's operations join, leave and applyMove are  *)
(* the actions; each action models the whole call, including the score    *)
(* and game-end recomputation that follows a placement.                   *)
(***************************************************************************)
EXTENDS Integers, Naturals, Sequences, FiniteSets, TLC

(***************************************************************************)
(* Bounds of the model                                                     *)
(***************************************************************************)
\* bound on the attempt counter (_moveCount) of the explored matches
MaxAttempts == 5

\* the player ids of the callers, in the order they arrive: one more than
\* there are seats
PlayerSeq == <<"p1", "p2", "p3">>

Players == {PlayerSeq[i] : i \in 1 .. Len(PlayerSeq)}

\* the cells the callers aim at: the top row of board A (a line either piece
\* can complete) and one cell of board B
PlayCells == {<<"A", 0, 0>>, <<"A", 0, 1>>, <<"A", 0, 2>>, <<"B", 0, 0>>}

\* the matches replayed from the test suite are explored from EndDepth moves
\* before their last move
EndDepth == 1

\* the cells the callers aim at in the replayed matches: the cells of board C
\* on which the replayed matches end, the first cell of board A, which X
\* holds in every one of them, and the cells that would complete O's rows
\* on boards A and B
ReplayCells ==
  {<<"A", 0, 0>>, <<"A", 1, 2>>, <<"B", 0, 2>>,
   <<"C", 0, 2>>, <<"C", 1, 2>>, <<"C", 2, 0>>, <<"C", 2, 1>>, <<"C", 2, 2>>}

(***************************************************************************)
(* Values                                                                  *)
(***************************************************************************)
undefined == "undefined"

BoardSet == {"A", "B", "C"}

Idx == 0 .. 2

\* the messages of InvalidParametersError
GAME_FULL_MESSAGE == "GAME_FULL_MESSAGE"

GAME_NOT_IN_PROGRESS_MESSAGE == "GAME_NOT_IN_PROGRESS_MESSAGE"

BOARD_POSITION_NOT_EMPTY_MESSAGE == "Board position is not empty"

MOVE_NOT_YOUR_TURN_MESSAGE == "MOVE_NOT_YOUR_TURN_MESSAGE"

PLAYER_ALREADY_IN_GAME_MESSAGE == "PLAYER_ALREADY_IN_GAME_MESSAGE"

PLAYER_NOT_IN_GAME_MESSAGE == "PLAYER_NOT_IN_GAME_MESSAGE"

\* The throw sites of the engine, named as the specification names them, and
\* the message each site throws.  "none" is a call that returned normally.
Message(err) ==
  CASE err = "AlreadySeated"          -> PLAYER_ALREADY_IN_GAME_MESSAGE
    [] err = "Full"                   -> GAME_FULL_MESSAGE
    [] err = "NotSeated"              -> PLAYER_NOT_IN_GAME_MESSAGE
    [] err = "NotInProgress"          -> GAME_NOT_IN_PROGRESS_MESSAGE
    [] err = "NotInGame"              -> PLAYER_NOT_IN_GAME_MESSAGE
    [] err = "BoardAlreadyWon"        -> BOARD_POSITION_NOT_EMPTY_MESSAGE
    [] err = "CellAlreadyOwnedBySelf" -> BOARD_POSITION_NOT_EMPTY_MESSAGE
    [] err = "OutOfTurn"              -> MOVE_NOT_YOUR_TURN_MESSAGE
    [] OTHER                          -> "none"

\* publiclyVisible of a fresh match: every cell false
NoneVisible == [b \in BoardSet |-> [r \in Idx |-> [c \in Idx |-> FALSE]]]

\* the state of a TicTacToeGame sub-game right after construction
NewSubGame == [moves |-> <<>>, status |-> "WAITING_TO_START",
               x |-> undefined, o |-> undefined, winner |-> undefined]

\* the match right after construction
NewGame ==
  [state |-> [x |-> undefined, o |-> undefined,
              moves |-> <<>>, status |-> "WAITING_TO_START",
              xScore |-> 0, oScore |-> 0,
              publiclyVisible |-> NoneVisible,
              winner |-> undefined],
   games |-> [b \in BoardSet |-> NewSubGame],
   xScore |-> 0, oScore |-> 0, moveCount |-> 0]

(***************************************************************************)
(* Board Evaluator                                                         *)
(***************************************************************************)
\* Array.prototype.find with the predicate "same board, row, col": the
\* gamePiece of the first recorded move at the cell, or undefined
FindAt(moves, board, row, col) ==
  LET hits == {i \in 1 .. Len(moves) :
                 /\ moves[i].board = board
                 /\ moves[i].row = row
                 /\ moves[i].col = col}
  IN  IF hits = {} THEN undefined
      ELSE moves[CHOOSE i \in hits : \A j \in hits : i <= j].gamePiece

\* find with the predicate "same board, row, col and gamePiece"
FindOwn(moves, board, row, col, gamePiece) ==
  \E i \in 1 .. Len(moves) :
     /\ moves[i].board = board
     /\ moves[i].row = row
     /\ moves[i].col = col
     /\ moves[i].gamePiece = gamePiece

\* moves.filter(m => m.board === board)
BoardMoves(moves, board) == SelectSeq(moves, LAMBDA m : m.board = board)

\* the 3x3 grid of _getBoardWinner: forEach assigns in order, so the last
\* recorded move at a cell is the one the grid shows
Grid(moves, board) ==
  [r \in Idx |-> [c \in Idx |->
     LET hits == {i \in 1 .. Len(moves) :
                    /\ moves[i].board = board
                    /\ moves[i].row = r
                    /\ moves[i].col = c}
     IN  IF hits = {} THEN undefined
         ELSE moves[CHOOSE i \in hits : \A j \in hits : i >= j].gamePiece]]

\* the lines in the order _getBoardWinner looks at them: rows 0..2, columns
\* 0..2, the main diagonal, the anti-diagonal
Lines ==
  << <<<<0, 0>>, <<0, 1>>, <<0, 2>>>>,
     <<<<1, 0>>, <<1, 1>>, <<1, 2>>>>,
     <<<<2, 0>>, <<2, 1>>, <<2, 2>>>>,
     <<<<0, 0>>, <<1, 0>>, <<2, 0>>>>,
     <<<<0, 1>>, <<1, 1>>, <<2, 1>>>>,
     <<<<0, 2>>, <<1, 2>>, <<2, 2>>>>,
     <<<<0, 0>>, <<1, 1>>, <<2, 2>>>>,
     <<<<0, 2>>, <<1, 1>>, <<2, 0>>>> >>

LineFull(grid, line) ==
  /\ grid[line[1][1]][line[1][2]] # undefined
  /\ grid[line[1][1]][line[1][2]] = grid[line[2][1]][line[2][2]]
  /\ grid[line[2][1]][line[2][2]] = grid[line[3][1]][line[3][2]]

\* _getBoardWinner that leaves out the diagonal from (0,2) to (2,0)
_getBoardWinner_noAntiDiagonal(moves, board) ==
  LET grid == Grid(moves, board)
      full == {k \in 1 .. (Len(Lines) - 1) : LineFull(grid, Lines[k])}
  IN  IF full = {} THEN undefined
      ELSE LET k == CHOOSE i \in full : \A j \in full : i <= j
           IN  grid[Lines[k][1][1]][Lines[k][1][2]]

_getBoardWinner(moves, board) ==
  LET grid == Grid(moves, board)
      full == {k \in 1 .. Len(Lines) : LineFull(grid, Lines[k])}
  IN  IF full = {} THEN undefined
      ELSE LET k == CHOOSE i \in full : \A j \in full : i <= j
           IN  grid[Lines[k][1][1]][Lines[k][1][2]]

_isBoardWon(moves, board) == _getBoardWinner(moves, board) # undefined

(***************************************************************************)
(* The engine's operations, as functions from the match g (this.state and  *)
(* the private fields) to the result of the call: the match afterwards,   *)
(* the throw site (or "none") and, for applyMove, what the call did.      *)
(***************************************************************************)
Ok(g, outcome) == [g |-> g, err |-> "none", outcome |-> outcome]

Throw(g, err) == [g |-> g, err |-> err, outcome |-> "none"]

PieceOf(st, playerID) ==
  IF playerID = st.x THEN "X"
  ELSE IF playerID = st.o THEN "O"
  ELSE undefined

\* _join that looks for a free seat before it looks for the player
_join_fullFirst(g, player) ==
  LET st == g.state
      seated ==
        IF st.x = undefined THEN [st EXCEPT !.x = player]
        ELSE [st EXCEPT !.o = player]
      started ==
        IF seated.x # undefined /\ seated.o # undefined
        THEN [seated EXCEPT !.status = "IN_PROGRESS"]
        ELSE seated
  IN  IF st.x # undefined /\ st.o # undefined THEN Throw(g, "Full")
      ELSE IF st.x = player \/ st.o = player THEN Throw(g, "AlreadySeated")
      ELSE Ok([g EXCEPT !.state = started], "joined")

\* _join that starts the match as soon as one seat is held
_join_startsAtOnce(g, player) ==
  LET st == g.state
      seated ==
        IF st.x = undefined THEN [st EXCEPT !.x = player]
        ELSE [st EXCEPT !.o = player]
      started ==
        IF seated.x # undefined \/ seated.o # undefined
        THEN [seated EXCEPT !.status = "IN_PROGRESS"]
        ELSE seated
  IN  IF st.x = player \/ st.o = player THEN Throw(g, "AlreadySeated")
      ELSE IF st.x # undefined /\ st.o # undefined THEN Throw(g, "Full")
      ELSE Ok([g EXCEPT !.state = started], "joined")

_join(g, player) ==
  LET st == g.state
      seated ==
        IF st.x = undefined THEN [st EXCEPT !.x = player]
        ELSE [st EXCEPT !.o = player]
      started ==
        IF seated.x # undefined /\ seated.o # undefined
        THEN [seated EXCEPT !.status = "IN_PROGRESS"]
        ELSE seated
  IN  IF st.x = player \/ st.o = player THEN Throw(g, "AlreadySeated")
      ELSE IF st.x # undefined /\ st.o # undefined THEN Throw(g, "Full")
      ELSE Ok([g EXCEPT !.state = started], "joined")

\* _leave that resets the match when the winner of a match that is over
\* leaves it
_leave_winnerLeavesResets(g, player) ==
  LET st == g.state
  IN  IF st.x # player /\ st.o # player THEN Throw(g, "NotSeated")
      ELSE IF st.o = undefined \/ (st.status = "OVER" /\ st.winner = player)
      THEN Ok(NewGame, "reset")
      ELSE Ok([g EXCEPT !.state.status = "OVER",
                        !.state.winner = IF st.x = player THEN st.o ELSE st.x],
              "forfeit")

\* _leave whose forfeit vacates the seat of the leaving player
_leave_forfeitVacates(g, player) ==
  LET st == g.state
  IN  IF st.x # player /\ st.o # player THEN Throw(g, "NotSeated")
      ELSE IF st.o = undefined THEN Ok(NewGame, "reset")
      ELSE Ok([g EXCEPT !.state.status = "OVER",
                        !.state.winner = IF st.x = player THEN st.o ELSE st.x,
                        !.state.x = IF st.x = player THEN undefined ELSE st.x,
                        !.state.o = IF st.o = player THEN undefined ELSE st.o],
              "forfeit")

\* _leave without the reset of a match that has one player
_leave_noReset(g, player) ==
  LET st == g.state
  IN  IF st.x # player /\ st.o # player THEN Throw(g, "NotSeated")
      ELSE Ok([g EXCEPT !.state.status = "OVER",
                        !.state.winner = IF st.x = player THEN st.o ELSE st.x],
              "forfeit")

\* _leave whose forfeit names the leaving player the winner
_leave_leaverWins(g, player) ==
  LET st == g.state
  IN  IF st.x # player /\ st.o # player THEN Throw(g, "NotSeated")
      ELSE IF st.o = undefined THEN Ok(NewGame, "reset")
      ELSE Ok([g EXCEPT !.state.status = "OVER",
                        !.state.winner = IF st.x = player THEN st.x ELSE st.o],
              "forfeit")

\* _leave whose reset keeps the leaving player on seat X
_leave_resetKeepsSeat(g, player) ==
  LET st == g.state
  IN  IF st.x # player /\ st.o # player THEN Throw(g, "NotSeated")
      ELSE IF st.o = undefined
      THEN Ok([NewGame EXCEPT !.state.x = st.x], "reset")
      ELSE Ok([g EXCEPT !.state.status = "OVER",
                        !.state.winner = IF st.x = player THEN st.o ELSE st.x],
              "forfeit")

\* _leave that also resets a match that is over
_leave_resetsWhenOver(g, player) ==
  LET st == g.state
  IN  IF st.x # player /\ st.o # player THEN Throw(g, "NotSeated")
      ELSE IF st.o = undefined \/ st.status = "OVER" THEN Ok(NewGame, "reset")
      ELSE Ok([g EXCEPT !.state.status = "OVER",
                        !.state.winner = IF st.x = player THEN st.o ELSE st.x],
              "forfeit")

\* _leave without the check that the player holds a seat
_leave_noSeatCheck(g, player) ==
  LET st == g.state
  IN  IF st.o = undefined THEN Ok(NewGame, "reset")
      ELSE Ok([g EXCEPT !.state.status = "OVER",
                        !.state.winner = IF st.x = player THEN st.o ELSE st.x],
              "forfeit")

\* _leave whose forfeit hides every cell again
_leave_forfeitHidesCells(g, player) ==
  LET st == g.state
  IN  IF st.x # player /\ st.o # player THEN Throw(g, "NotSeated")
      ELSE IF st.o = undefined THEN Ok(NewGame, "reset")
      ELSE Ok([g EXCEPT !.state.status = "OVER",
                        !.state.publiclyVisible = NoneVisible,
                        !.state.winner = IF st.x = player THEN st.o ELSE st.x],
              "forfeit")

_leave(g, player) ==
  LET st == g.state
  IN  IF st.x # player /\ st.o # player THEN Throw(g, "NotSeated")
      ELSE IF st.o = undefined THEN Ok(NewGame, "reset")
      ELSE Ok([g EXCEPT !.state.status = "OVER",
                        !.state.winner = IF st.x = player THEN st.o ELSE st.x],
              "forfeit")

\* _validateMove without the board-won check
_validateMove_noBoardWonCheck(g, playerID, board, row, col) ==
  LET st == g.state
      gamePiece == PieceOf(st, playerID)
  IN  IF st.status # "IN_PROGRESS" THEN "NotInProgress"
      ELSE IF gamePiece = undefined THEN "NotInGame"
      ELSE IF FindOwn(st.moves, board, row, col, gamePiece)
           THEN "CellAlreadyOwnedBySelf"
      ELSE IF gamePiece = "X" /\ g.moveCount % 2 = 1 THEN "OutOfTurn"
      ELSE IF gamePiece = "O" /\ g.moveCount % 2 = 0 THEN "OutOfTurn"
      ELSE "none"

\* _validateMove without the own-cell check
_validateMove_noOwnCellCheck(g, playerID, board, row, col) ==
  LET st == g.state
      gamePiece == PieceOf(st, playerID)
  IN  IF st.status # "IN_PROGRESS" THEN "NotInProgress"
      ELSE IF gamePiece = undefined THEN "NotInGame"
      ELSE IF _isBoardWon(st.moves, board) THEN "BoardAlreadyWon"
      ELSE IF gamePiece = "X" /\ g.moveCount % 2 = 1 THEN "OutOfTurn"
      ELSE IF gamePiece = "O" /\ g.moveCount % 2 = 0 THEN "OutOfTurn"
      ELSE "none"

\* _validateMove that lets a won board absorb an attempt on a cell the
\* opponent holds
_validateMove_wonBoardAbsorbs(g, playerID, board, row, col) ==
  LET st == g.state
      gamePiece == PieceOf(st, playerID)
  IN  IF st.status # "IN_PROGRESS" THEN "NotInProgress"
      ELSE IF gamePiece = undefined THEN "NotInGame"
      ELSE IF /\ _isBoardWon(st.moves, board)
              /\ FindAt(st.moves, board, row, col) = undefined
           THEN "BoardAlreadyWon"
      ELSE IF FindOwn(st.moves, board, row, col, gamePiece)
           THEN "CellAlreadyOwnedBySelf"
      ELSE IF gamePiece = "X" /\ g.moveCount % 2 = 1 THEN "OutOfTurn"
      ELSE IF gamePiece = "O" /\ g.moveCount % 2 = 0 THEN "OutOfTurn"
      ELSE "none"

\* _validateMove with the turn taken from moves.length
_validateMove_turnByLength(g, playerID, board, row, col) ==
  LET st == g.state
      gamePiece == PieceOf(st, playerID)
  IN  IF st.status # "IN_PROGRESS" THEN "NotInProgress"
      ELSE IF gamePiece = undefined THEN "NotInGame"
      ELSE IF _isBoardWon(st.moves, board) THEN "BoardAlreadyWon"
      ELSE IF FindOwn(st.moves, board, row, col, gamePiece)
           THEN "CellAlreadyOwnedBySelf"
      ELSE IF gamePiece = "X" /\ Len(st.moves) % 2 = 1 THEN "OutOfTurn"
      ELSE IF gamePiece = "O" /\ Len(st.moves) % 2 = 0 THEN "OutOfTurn"
      ELSE "none"

\* _validateMove with the own-cell check ahead of the board-won check
_validateMove_ownCellFirst(g, playerID, board, row, col) ==
  LET st == g.state
      gamePiece == PieceOf(st, playerID)
  IN  IF st.status # "IN_PROGRESS" THEN "NotInProgress"
      ELSE IF gamePiece = undefined THEN "NotInGame"
      ELSE IF FindOwn(st.moves, board, row, col, gamePiece)
           THEN "CellAlreadyOwnedBySelf"
      ELSE IF _isBoardWon(st.moves, board) THEN "BoardAlreadyWon"
      ELSE IF gamePiece = "X" /\ g.moveCount % 2 = 1 THEN "OutOfTurn"
      ELSE IF gamePiece = "O" /\ g.moveCount % 2 = 0 THEN "OutOfTurn"
      ELSE "none"

\* _validateMove with the turn check ahead of the board-won and own-cell checks
_validateMove_turnFirst(g, playerID, board, row, col) ==
  LET st == g.state
      gamePiece == PieceOf(st, playerID)
  IN  IF st.status # "IN_PROGRESS" THEN "NotInProgress"
      ELSE IF gamePiece = undefined THEN "NotInGame"
      ELSE IF gamePiece = "X" /\ g.moveCount % 2 = 1 THEN "OutOfTurn"
      ELSE IF gamePiece = "O" /\ g.moveCount % 2 = 0 THEN "OutOfTurn"
      ELSE IF _isBoardWon(st.moves, board) THEN "BoardAlreadyWon"
      ELSE IF FindOwn(st.moves, board, row, col, gamePiece)
           THEN "CellAlreadyOwnedBySelf"
      ELSE "none"

\* the throw site of _validateMove for a move that carries its gamePiece,
\* "none" when the move passes
_validateMove(g, playerID, board, row, col) ==
  LET st == g.state
      gamePiece == PieceOf(st, playerID)
  IN  IF st.status # "IN_PROGRESS" THEN "NotInProgress"
      ELSE IF gamePiece = undefined THEN "NotInGame"
      ELSE IF _isBoardWon(st.moves, board) THEN "BoardAlreadyWon"
      ELSE IF FindOwn(st.moves, board, row, col, gamePiece)
           THEN "CellAlreadyOwnedBySelf"
      ELSE IF gamePiece = "X" /\ g.moveCount % 2 = 1 THEN "OutOfTurn"
      ELSE IF gamePiece = "O" /\ g.moveCount % 2 = 0 THEN "OutOfTurn"
      ELSE "none"

\* _updateSubGameBoard that hands the sub-game the moves of every board
_updateSubGameBoard_everyBoard(g, board) ==
  LET st == g.state
      boardWinner == _getBoardWinner(st.moves, board)
      boardMoves == st.moves
  IN  [g EXCEPT !.games[board] =
        [moves |-> [i \in 1 .. Len(boardMoves) |->
                      [gamePiece |-> boardMoves[i].gamePiece,
                       row |-> boardMoves[i].row,
                       col |-> boardMoves[i].col]],
         status |-> IF _isBoardWon(st.moves, board) THEN "OVER"
                    ELSE "IN_PROGRESS",
         x |-> st.x,
         o |-> st.o,
         winner |-> IF boardWinner = "X" THEN st.x
                    ELSE IF boardWinner = "O" THEN st.o
                    ELSE undefined]]

_updateSubGameBoard(g, board) ==
  LET st == g.state
      boardWinner == _getBoardWinner(st.moves, board)
      boardMoves == BoardMoves(st.moves, board)
  IN  [g EXCEPT !.games[board] =
        [moves |-> [i \in 1 .. Len(boardMoves) |->
                      [gamePiece |-> boardMoves[i].gamePiece,
                       row |-> boardMoves[i].row,
                       col |-> boardMoves[i].col]],
         status |-> IF _isBoardWon(st.moves, board) THEN "OVER"
                    ELSE "IN_PROGRESS",
         x |-> st.x,
         o |-> st.o,
         winner |-> IF boardWinner = "X" THEN st.x
                    ELSE IF boardWinner = "O" THEN st.o
                    ELSE undefined]]

\* the number of boards _getBoardWinner gives to the piece
Wins(moves, gamePiece) ==
  Cardinality({b \in BoardSet : _getBoardWinner(moves, b) = gamePiece})

\* _checkForWins that adds the boards won to the scores it finds
_checkForWins_accumulates(g) ==
  LET xWins == g.xScore + Wins(g.state.moves, "X")
      oWins == g.oScore + Wins(g.state.moves, "O")
  IN  [g EXCEPT !.xScore = xWins, !.oScore = oWins,
                !.state.xScore = xWins, !.state.oScore = oWins]

_checkForWins(g) ==
  LET xWins == Wins(g.state.moves, "X")
      oWins == Wins(g.state.moves, "O")
  IN  [g EXCEPT !.xScore = xWins, !.oScore = oWins,
                !.state.xScore = xWins, !.state.oScore = oWins]

\* hasAvailableMove that does not look at whether the board is won
HasAvailableMove_ignoresWins(moves) ==
  \E b \in BoardSet : Len(BoardMoves(moves, b)) < 9

\* hasAvailableMove: some board is not won and has fewer than 9 recorded moves
HasAvailableMove(moves) ==
  \E b \in BoardSet :
     /\ ~ _isBoardWon(moves, b)
     /\ Len(BoardMoves(moves, b)) < 9

\* _checkForGameEnding that ends the match once two boards are won, by
\* whichever seats
_checkForGameEnding_twoBoardsWon(g) ==
  LET st == g.state
  IN  IF g.xScore + g.oScore >= 2
      THEN [g EXCEPT !.state.status = "OVER",
                     !.state.winner = IF g.xScore > g.oScore THEN st.x ELSE st.o]
      ELSE IF ~ HasAvailableMove(st.moves)
      THEN [g EXCEPT !.state.status = "OVER",
                     !.state.winner = IF g.xScore > g.oScore THEN st.x
                                      ELSE IF g.oScore > g.xScore THEN st.o
                                      ELSE undefined]
      ELSE g

\* _checkForGameEnding that ends the match by score above 2 only
_checkForGameEnding_aboveTwo(g) ==
  LET st == g.state
  IN  IF g.xScore > 2 \/ g.oScore > 2
      THEN [g EXCEPT !.state.status = "OVER",
                     !.state.winner = IF g.xScore > g.oScore THEN st.x ELSE st.o]
      ELSE IF ~ HasAvailableMove(st.moves)
      THEN [g EXCEPT !.state.status = "OVER",
                     !.state.winner = IF g.xScore > g.oScore THEN st.x
                                      ELSE IF g.oScore > g.xScore THEN st.o
                                      ELSE undefined]
      ELSE g

\* _checkForGameEnding that ends the match by score only
_checkForGameEnding_scoreOnly(g) ==
  LET st == g.state
  IN  IF g.xScore >= 2 \/ g.oScore >= 2
      THEN [g EXCEPT !.state.status = "OVER",
                     !.state.winner = IF g.xScore > g.oScore THEN st.x ELSE st.o]
      ELSE g

_checkForGameEnding(g) ==
  LET st == g.state
  IN  IF g.xScore >= 2 \/ g.oScore >= 2
      THEN [g EXCEPT !.state.status = "OVER",
                     !.state.winner = IF g.xScore > g.oScore THEN st.x ELSE st.o]
      ELSE IF ~ HasAvailableMove(st.moves)
      THEN [g EXCEPT !.state.status = "OVER",
                     !.state.winner = IF g.xScore > g.oScore THEN st.x
                                      ELSE IF g.oScore > g.xScore THEN st.o
                                      ELSE undefined]
      ELSE g

\* applyMove that makes the cell of a placement publicly visible as well
applyMove_revealsPlacement(g, playerID, board, row, col) ==
  LET st == g.state
      gamePiece == PieceOf(st, playerID)
      invalid == _validateMove(g, playerID, board, row, col)
      existingMove == FindAt(st.moves, board, row, col)
      collided ==
        [g EXCEPT !.moveCount = @ + 1,
                  !.state.publiclyVisible[board][row][col] = TRUE]
      placed ==
        [g EXCEPT !.moveCount = @ + 1,
                  !.state.publiclyVisible[board][row][col] = TRUE,
                  !.state.moves = Append(@, [board |-> board, row |-> row,
                                             col |-> col,
                                             gamePiece |-> gamePiece])]
  IN  IF st.status # "IN_PROGRESS" THEN Throw(g, "NotInProgress")
      ELSE IF gamePiece = undefined THEN Throw(g, "NotInGame")
      ELSE IF invalid # "none" THEN Throw(g, invalid)
      ELSE IF existingMove # undefined
      THEN IF existingMove = gamePiece
           THEN Throw(g, "CellAlreadyOwnedBySelf")
           ELSE Ok(collided, "collided")
      ELSE Ok(_checkForGameEnding(
                _checkForWins(_updateSubGameBoard(placed, board))),
              "placed")

\* applyMove that puts the new move in front of the recorded ones
applyMove_prepends(g, playerID, board, row, col) ==
  LET st == g.state
      gamePiece == PieceOf(st, playerID)
      invalid == _validateMove(g, playerID, board, row, col)
      existingMove == FindAt(st.moves, board, row, col)
      collided ==
        [g EXCEPT !.moveCount = @ + 1,
                  !.state.publiclyVisible[board][row][col] = TRUE]
      placed ==
        [g EXCEPT !.moveCount = @ + 1,
                  !.state.moves = <<[board |-> board, row |-> row,
                                     col |-> col,
                                     gamePiece |-> gamePiece]>> \o @]
  IN  IF st.status # "IN_PROGRESS" THEN Throw(g, "NotInProgress")
      ELSE IF gamePiece = undefined THEN Throw(g, "NotInGame")
      ELSE IF invalid # "none" THEN Throw(g, invalid)
      ELSE IF existingMove # undefined
      THEN IF existingMove = gamePiece
           THEN Throw(g, "CellAlreadyOwnedBySelf")
           ELSE Ok(collided, "collided")
      ELSE Ok(_checkForGameEnding(
                _checkForWins(_updateSubGameBoard(placed, board))),
              "placed")

\* applyMove that records the colliding move as well
applyMove_recordsCollision(g, playerID, board, row, col) ==
  LET st == g.state
      gamePiece == PieceOf(st, playerID)
      invalid == _validateMove(g, playerID, board, row, col)
      existingMove == FindAt(st.moves, board, row, col)
      collided ==
        [g EXCEPT !.moveCount = @ + 1,
                  !.state.publiclyVisible[board][row][col] = TRUE,
                  !.state.moves = Append(@, [board |-> board, row |-> row,
                                             col |-> col,
                                             gamePiece |-> gamePiece])]
      placed ==
        [g EXCEPT !.moveCount = @ + 1,
                  !.state.moves = Append(@, [board |-> board, row |-> row,
                                             col |-> col,
                                             gamePiece |-> gamePiece])]
  IN  IF st.status # "IN_PROGRESS" THEN Throw(g, "NotInProgress")
      ELSE IF gamePiece = undefined THEN Throw(g, "NotInGame")
      ELSE IF invalid # "none" THEN Throw(g, invalid)
      ELSE IF existingMove # undefined
      THEN IF existingMove = gamePiece
           THEN Throw(g, "CellAlreadyOwnedBySelf")
           ELSE Ok(collided, "collided")
      ELSE Ok(_checkForGameEnding(
                _checkForWins(_updateSubGameBoard(placed, board))),
              "placed")

\* applyMove whose collision branch leaves _moveCount alone
applyMove_collisionKeepsCount(g, playerID, board, row, col) ==
  LET st == g.state
      gamePiece == PieceOf(st, playerID)
      invalid == _validateMove(g, playerID, board, row, col)
      existingMove == FindAt(st.moves, board, row, col)
      collided ==
        [g EXCEPT !.state.publiclyVisible[board][row][col] = TRUE]
      placed ==
        [g EXCEPT !.moveCount = @ + 1,
                  !.state.moves = Append(@, [board |-> board, row |-> row,
                                             col |-> col,
                                             gamePiece |-> gamePiece])]
  IN  IF st.status # "IN_PROGRESS" THEN Throw(g, "NotInProgress")
      ELSE IF gamePiece = undefined THEN Throw(g, "NotInGame")
      ELSE IF invalid # "none" THEN Throw(g, invalid)
      ELSE IF existingMove # undefined
      THEN IF existingMove = gamePiece
           THEN Throw(g, "CellAlreadyOwnedBySelf")
           ELSE Ok(collided, "collided")
      ELSE Ok(_checkForGameEnding(
                _checkForWins(_updateSubGameBoard(placed, board))),
              "placed")

\* applyMove that counts the attempt before _validateMove runs
applyMove_countsBeforeValidate(g, playerID, board, row, col) ==
  LET st == g.state
      gamePiece == PieceOf(st, playerID)
      invalid == _validateMove(g, playerID, board, row, col)
      existingMove == FindAt(st.moves, board, row, col)
      collided ==
        [g EXCEPT !.moveCount = @ + 1,
                  !.state.publiclyVisible[board][row][col] = TRUE]
      placed ==
        [g EXCEPT !.moveCount = @ + 1,
                  !.state.moves = Append(@, [board |-> board, row |-> row,
                                             col |-> col,
                                             gamePiece |-> gamePiece])]
  IN  IF st.status # "IN_PROGRESS" THEN Throw(g, "NotInProgress")
      ELSE IF gamePiece = undefined THEN Throw(g, "NotInGame")
      ELSE IF invalid # "none"
      THEN Throw([g EXCEPT !.moveCount = @ + 1], invalid)
      ELSE IF existingMove # undefined
      THEN IF existingMove = gamePiece
           THEN Throw(g, "CellAlreadyOwnedBySelf")
           ELSE Ok(collided, "collided")
      ELSE Ok(_checkForGameEnding(
                _checkForWins(_updateSubGameBoard(placed, board))),
              "placed")

\* applyMove that resolves the piece before it looks at the status
applyMove_pieceFirst(g, playerID, board, row, col) ==
  LET st == g.state
      gamePiece == PieceOf(st, playerID)
      invalid == _validateMove(g, playerID, board, row, col)
      existingMove == FindAt(st.moves, board, row, col)
      collided ==
        [g EXCEPT !.moveCount = @ + 1,
                  !.state.publiclyVisible[board][row][col] = TRUE]
      placed ==
        [g EXCEPT !.moveCount = @ + 1,
                  !.state.moves = Append(@, [board |-> board, row |-> row,
                                             col |-> col,
                                             gamePiece |-> gamePiece])]
  IN  IF gamePiece = undefined THEN Throw(g, "NotInGame")
      ELSE IF st.status # "IN_PROGRESS" THEN Throw(g, "NotInProgress")
      ELSE IF invalid # "none" THEN Throw(g, invalid)
      ELSE IF existingMove # undefined
      THEN IF existingMove = gamePiece
           THEN Throw(g, "CellAlreadyOwnedBySelf")
           ELSE Ok(collided, "collided")
      ELSE Ok(_checkForGameEnding(
                _checkForWins(_updateSubGameBoard(placed, board))),
              "placed")

applyMove(g, playerID, board, row, col) ==
  LET st == g.state
      gamePiece == PieceOf(st, playerID)
      invalid == _validateMove(g, playerID, board, row, col)
      existingMove == FindAt(st.moves, board, row, col)
      collided ==
        [g EXCEPT !.moveCount = @ + 1,
                  !.state.publiclyVisible[board][row][col] = TRUE]
      placed ==
        [g EXCEPT !.moveCount = @ + 1,
                  !.state.moves = Append(@, [board |-> board, row |-> row,
                                             col |-> col,
                                             gamePiece |-> gamePiece])]
  IN  IF st.status # "IN_PROGRESS" THEN Throw(g, "NotInProgress")
      ELSE IF gamePiece = undefined THEN Throw(g, "NotInGame")
      ELSE IF invalid # "none" THEN Throw(g, invalid)
      ELSE IF existingMove # undefined
      THEN IF existingMove = gamePiece
           THEN Throw(g, "CellAlreadyOwnedBySelf")
           ELSE Ok(collided, "collided")
      ELSE Ok(_checkForGameEnding(
                _checkForWins(_updateSubGameBoard(placed, board))),
              "placed")

(***************************************************************************)
(* The state machine                                                       *)
(***************************************************************************)
VARIABLES
  state,       \* this.state: x, o, status, moves, publiclyVisible, scores, winner
  _games,      \* the three sub-games
  _xScore,     \* boards won by X
  _oScore,     \* boards won by O
  _moveCount,  \* move attempts, collisions included: the turn clock
  last,        \* the last call: operation, arguments, throw site, outcome
  lastMover,   \* the piece of the last accepted attempt of this match
  budget,      \* accepted attempts the exploration still makes
  _game,       \* the game area: the id of its current match, or undefined
  _history     \* the game area: the results it has recorded

vars ==
  <<state, _games, _xScore, _oScore, _moveCount, last, lastMover, budget,
    _game, _history>>

\* the game area is left as it is: the engine is called directly
AreaVars == <<_game, _history>>

\* an engine that no game area holds
NoArea == _game = undefined /\ _history = <<>>

\* the match as one value
Game == [state |-> state, games |-> _games, xScore |-> _xScore,
         oScore |-> _oScore, moveCount |-> _moveCount]

NoCall == [op |-> "new", player |-> undefined, board |-> undefined,
           row |-> 0, col |-> 0, err |-> "none", outcome |-> "none",
           gameID |-> undefined]

JoinCall(player, res) ==
  [NoCall EXCEPT !.op = "join", !.player = player,
                 !.err = res.err, !.outcome = res.outcome]

LeaveCall(player, res) ==
  [NoCall EXCEPT !.op = "leave", !.player = player,
                 !.err = res.err, !.outcome = res.outcome]

MoveCall(player, board, row, col, res) ==
  [op |-> "applyMove", player |-> player, board |-> board,
   row |-> row, col |-> col, err |-> res.err, outcome |-> res.outcome,
   gameID |-> undefined]

\* the variables hold the match g, reached by the call `call`
Holds(g, call, mover) ==
  /\ state = g.state
  /\ _games = g.games
  /\ _xScore = g.xScore
  /\ _oScore = g.oScore
  /\ _moveCount = g.moveCount
  /\ last = call
  /\ lastMover = mover

Init ==
  /\ Holds(NewGame, NoCall, undefined)
  /\ budget = MaxAttempts
  /\ NoArea

\* the match becomes what the call left
Becomes(g) ==
  /\ state' = g.state
  /\ _games' = g.games
  /\ _xScore' = g.xScore
  /\ _oScore' = g.oScore
  /\ _moveCount' = g.moveCount

\* The engine compares player ids for equality only, so matches that differ
\* by a renaming of the ids behave alike.  join is called by the seated
\* players and by one newcomer, the first id of PlayerSeq that holds no seat.
Joiners ==
  LET free == {i \in 1 .. Len(PlayerSeq) :
                 PlayerSeq[i] # state.x /\ PlayerSeq[i] # state.o}
  IN  {state.x, state.o, PlayerSeq[CHOOSE i \in free : \A j \in free : i <= j]}
        \ {undefined}

Join(player) ==
  LET res == _join(Game, player)
  IN  /\ Becomes(res.g)
      /\ last' = JoinCall(player, res)
      /\ UNCHANGED <<lastMover, budget>>
      /\ UNCHANGED AreaVars

Leave(player) ==
  LET res == _leave(Game, player)
  IN  /\ Becomes(res.g)
      /\ last' = LeaveCall(player, res)
      /\ lastMover' = IF res.outcome = "reset" THEN undefined ELSE lastMover
      /\ UNCHANGED budget
      /\ UNCHANGED AreaVars

\* accepted attempts are explored while the budget lasts; rejected calls always
ApplyMove(player, board, row, col) ==
  LET res == applyMove(Game, player, board, row, col)
  IN  /\ res.err = "none" => budget > 0
      /\ Becomes(res.g)
      /\ last' = MoveCall(player, board, row, col, res)
      /\ lastMover' = IF res.err = "none" THEN PieceOf(state, player)
                      ELSE lastMover
      /\ budget' = IF res.err = "none" THEN budget - 1 ELSE budget
      /\ UNCHANGED AreaVars

Next ==
  \/ \E player \in Joiners : Join(player)
  \/ \E player \in Players : Leave(player)
  \/ \E player \in Players, cell \in PlayCells :
        ApplyMove(player, cell[1], cell[2], cell[3])

Spec == Init /\ [][Next]_vars

(***************************************************************************)
(* Matches of the test suite, replayed through the engine's operations:    *)
(* the second specification starts EndDepth moves before the end of each   *)
(* (and from the new match), and explores every call from there.           *)
(***************************************************************************)
\* beforeEach: game.join(player1); game.join(player2)
Started ==
  [g |-> _join(_join(NewGame, "p1").g, "p2").g,
   call |-> JoinCall("p2", _join(_join(NewGame, "p1").g, "p2")),
   mover |-> undefined]

\* the match, the last call and the last mover after the first n moves of
\* the script, played from the position `from` (makeMove: game.applyMove)
RECURSIVE Replay(_, _, _)
Replay(from, script, n) ==
  IF n = 0 THEN from
  ELSE LET before == Replay(from, script, n - 1)
           mv == script[n]
           res == applyMove(before.g, mv[1], mv[2], mv[3], mv[4])
       IN  [g |-> res.g,
            call |-> MoveCall(mv[1], mv[2], mv[3], mv[4], res),
            mover |-> IF res.err = "none" THEN PieceOf(before.g.state, mv[1])
                      ELSE before.mover]

\* X wins board A, O wins board B, board C fills up without a line: 1-1
TieOneAllOpening ==
  << <<"p1", "A", 0, 0>>, <<"p2", "B", 0, 0>>, <<"p1", "A", 0, 1>>,
     <<"p2", "B", 0, 1>>, <<"p1", "A", 0, 2>>, <<"p2", "B", 0, 2>> >>

TieOneAllEnding ==
  << <<"p1", "C", 0, 0>>, <<"p2", "C", 1, 1>>, <<"p1", "C", 0, 2>>,
     <<"p2", "C", 2, 0>>, <<"p1", "C", 1, 0>>, <<"p2", "C", 0, 1>>,
     <<"p1", "C", 2, 2>>, <<"p2", "C", 1, 2>>, <<"p1", "C", 2, 1>> >>

AfterTieOneAllOpening == Replay(Started, TieOneAllOpening, 6)

\* X wins board A and then column 0 of board C, O wins board B: 2-1
XWinsTwoOpening ==
  << <<"p1", "A", 0, 0>>, <<"p2", "B", 0, 0>>, <<"p1", "A", 0, 1>>,
     <<"p2", "B", 1, 0>>, <<"p1", "A", 0, 2>>, <<"p2", "B", 2, 0>> >>

XWinsTwoEnding ==
  << <<"p1", "C", 0, 0>>, <<"p2", "C", 1, 1>>, <<"p1", "C", 1, 0>>,
     <<"p2", "C", 2, 2>>, <<"p1", "C", 2, 0>> >>

AfterXWinsTwoOpening == Replay(Started, XWinsTwoOpening, 6)

\* O wins board B and then column 0 of board C, X wins board A: 1-2
OWinsTwoOpening ==
  << <<"p1", "A", 0, 0>>, <<"p2", "B", 0, 0>>, <<"p1", "A", 1, 2>>,
     <<"p2", "B", 0, 1>>, <<"p1", "A", 2, 1>>, <<"p2", "B", 0, 2>> >>

OWinsTwoEnding ==
  << <<"p1", "A", 0, 1>>, <<"p2", "C", 0, 0>>, <<"p1", "A", 0, 2>>,
     <<"p2", "C", 1, 0>>, <<"p1", "C", 2, 2>>, <<"p2", "C", 2, 0>> >>

AfterOWinsTwoOpening == Replay(Started, OWinsTwoOpening, 6)

\* the three boards fill up without a line: 0-0
TieAllBoardA ==
  << <<"p1", "A", 0, 0>>, <<"p2", "A", 0, 1>>, <<"p1", "A", 1, 0>>,
     <<"p2", "A", 1, 1>>, <<"p1", "A", 2, 1>>, <<"p2", "A", 2, 0>>,
     <<"p1", "A", 2, 2>>, <<"p2", "A", 1, 2>>, <<"p1", "A", 0, 2>> >>

TieAllBoardB ==
  << <<"p2", "B", 0, 0>>, <<"p1", "B", 0, 1>>, <<"p2", "B", 1, 0>>,
     <<"p1", "B", 1, 1>>, <<"p2", "B", 2, 1>>, <<"p1", "B", 2, 0>>,
     <<"p2", "B", 2, 2>>, <<"p1", "B", 1, 2>>, <<"p2", "B", 0, 2>> >>

TieAllBoardC ==
  << <<"p1", "C", 0, 0>>, <<"p2", "C", 0, 1>>, <<"p1", "C", 1, 0>>,
     <<"p2", "C", 1, 1>>, <<"p1", "C", 2, 1>>, <<"p2", "C", 2, 0>>,
     <<"p1", "C", 2, 2>>, <<"p2", "C", 1, 2>>, <<"p1", "C", 0, 2>> >>

AfterTieAllBoardA == Replay(Started, TieAllBoardA, 9)

AfterTieAllBoardB == Replay(AfterTieAllBoardA, TieAllBoardB, 9)

\* X wins board A, then O wins board B: a point each, match in progress
PointEach ==
  << <<"p1", "A", 0, 0>>, <<"p2", "B", 0, 0>>, <<"p1", "A", 0, 1>>,
     <<"p2", "B", 0, 1>>, <<"p1", "A", 0, 2>>, <<"p2", "B", 0, 2>> >>

\* X wins board A while O holds two cells of its second row; O moves on to
\* board B
OneAllTiedOpening ==
  << <<"p1", "A", 0, 0>>, <<"p2", "A", 1, 0>>, <<"p1", "A", 0, 1>>,
     <<"p2", "A", 1, 1>>, <<"p1", "A", 0, 2>>, <<"p2", "B", 1, 0>> >>

\* O wins boards A and B while board C, unwon, still has empty cells: 0-2
OWinsBothOpening ==
  << <<"p1", "C", 0, 0>>, <<"p2", "A", 0, 0>>, <<"p1", "C", 0, 2>>,
     <<"p2", "A", 0, 1>>, <<"p1", "C", 1, 1>>, <<"p2", "A", 0, 2>> >>

OWinsBothEnding ==
  << <<"p1", "C", 2, 1>>, <<"p2", "B", 0, 0>>, <<"p1", "C", 1, 0>>,
     <<"p2", "B", 0, 1>>, <<"p1", "B", 2, 2>>, <<"p2", "B", 0, 2>> >>

AfterOWinsBothOpening == Replay(Started, OWinsBothOpening, 6)

\* the position each replayed match is continued from, and its last moves
Scripts ==
  {<<Started, PointEach>>,
   <<AfterOWinsBothOpening, OWinsBothEnding>>,
   <<Started, OneAllTiedOpening>>,
   <<AfterTieOneAllOpening, TieOneAllEnding>>,
   <<AfterXWinsTwoOpening, XWinsTwoEnding>>,
   <<AfterOWinsTwoOpening, OWinsTwoEnding>>,
   <<AfterTieAllBoardB, TieAllBoardC>>}

InitReplay ==
  /\ budget = EndDepth
  /\ NoArea
  /\ \/ Holds(NewGame, NoCall, undefined)
     \/ \E script \in Scripts :
          LET from == Replay(script[1], script[2], Len(script[2]) - EndDepth)
          IN  Holds(from.g, from.call, from.mover)

NextReplay ==
  \/ \E player \in Joiners : Join(player)
  \/ \E player \in Players : Leave(player)
  \/ \E player \in Players, cell \in ReplayCells :
        ApplyMove(player, cell[1], cell[2], cell[3])

SpecReplay == InitReplay /\ [][NextReplay]_vars

(***************************************************************************)
(* One board: a specification in which the evaluator is handed, for every  *)
(* line of the grid and each piece, a board A on which the piece holds two *)
(* cells of the line and is on turn, the other piece holding two cells off *)
(* the line; the match is then played on the nine cells of board A.        *)
(***************************************************************************)
\* bound on the attempt counter of the matches explored on one board
BoardAttempts == 1

AllCells ==
  <<<<0, 0>>, <<0, 1>>, <<0, 2>>, <<1, 0>>, <<1, 1>>, <<1, 2>>,
    <<2, 0>>, <<2, 1>>, <<2, 2>>>>

\* the cells off the line, row by row
OffLine(line) ==
  SelectSeq(AllCells, LAMBDA c : c \notin {line[1], line[2], line[3]})

\* the moves after which the piece holds the first two cells of the line and
\* is on turn; X moves first, so before O's turn X has made a third move,
\* on board B
NearLine(line, piece) ==
  LET off == OffLine(line)
  IN  IF piece = "X"
      THEN << <<"p1", "A", line[1][1], line[1][2]>>,
              <<"p2", "A", off[1][1], off[1][2]>>,
              <<"p1", "A", line[2][1], line[2][2]>>,
              <<"p2", "A", off[2][1], off[2][2]>> >>
      ELSE << <<"p1", "A", off[1][1], off[1][2]>>,
              <<"p2", "A", line[1][1], line[1][2]>>,
              <<"p1", "A", off[2][1], off[2][2]>>,
              <<"p2", "A", line[2][1], line[2][2]>>,
              <<"p1", "B", 0, 0>> >>

InitBoard ==
  /\ budget = BoardAttempts
  /\ NoArea
  /\ \E k \in 1 .. Len(Lines), piece \in {"X", "O"} :
       LET script == NearLine(Lines[k], piece)
           from == Replay(Started, script, Len(script))
       IN  Holds(from.g, from.call, from.mover)

NextBoard ==
  \E player \in {state.x, state.o}, row \in Idx, col \in Idx :
     ApplyMove(player, "A", row, col)

SpecBoard == InitBoard /\ [][NextBoard]_vars

(***************************************************************************)
(* Play to the end: a specification in which the test-suite matches whose  *)
(* play is left to board C are taken up PlayDepth moves before their end   *)
(* and played on; placements are not bounded, and the seat on turn goes on *)
(* placing while it can.                                                   *)
(***************************************************************************)
\* how many moves before the end of the script the play is taken up
PlayDepth == 2

\* bound on the collisions explored
CollisionBudget == 1

\* the cells of board C, where the play goes on, and one cell of a board
\* that takes no more moves
EndCells == ({"C"} \X Idx \X Idx) \cup {<<"A", 0, 0>>}

EndScripts ==
  {<<AfterTieOneAllOpening, TieOneAllEnding>>,
   <<AfterTieAllBoardB, TieAllBoardC>>}

InitPlay ==
  /\ budget = CollisionBudget
  /\ NoArea
  /\ \E script \in EndScripts :
       LET from == Replay(script[1], script[2], Len(script[2]) - PlayDepth)
       IN  Holds(from.g, from.call, from.mover)

\* rejected calls and placements are always explored, collisions while the
\* budget lasts
PlayMove(player, board, row, col) ==
  LET res == applyMove(Game, player, board, row, col)
  IN  /\ res.outcome = "collided" => budget > 0
      /\ Becomes(res.g)
      /\ last' = MoveCall(player, board, row, col, res)
      /\ lastMover' = IF res.err = "none" THEN PieceOf(state, player)
                      ELSE lastMover
      /\ budget' = IF res.outcome = "collided" THEN budget - 1 ELSE budget
      /\ UNCHANGED AreaVars

\* the cells where the seat to move can place: no move is recorded there and
\* the board is not won (_validateMove passes, find() returns undefined)
Placeable ==
  {cell \in EndCells :
     /\ state.status = "IN_PROGRESS"
     /\ FindAt(state.moves, cell[1], cell[2], cell[3]) = undefined
     /\ ~ _isBoardWon(state.moves, cell[1])}

PlacedCalls ==
  [op : {"applyMove"}, player : Players, board : BoardSet, row : Idx,
   col : Idx, err : {"none"}, outcome : {"placed"}, gameID : {undefined}]

\* the step is a placement: a placement is possible and the call made is
\* one that applyMove took as a placement
Placement ==
  /\ Placeable # {}
  /\ last' \in PlacedCalls

NextPlay ==
  \E player \in {state.x, state.o}, cell \in EndCells :
     PlayMove(player, cell[1], cell[2], cell[3])

SpecPlay == InitPlay /\ [][NextPlay]_vars /\ WF_last(Placement)

(***************************************************************************)
(* The seats: a third specification in which, right after the reset of a   *)
(* match, every player may be the one who joins.                           *)
(***************************************************************************)
\* bound on the attempt counter of the matches explored for the seats
SeatAttempts == 2

SeatCells == {<<"A", 0, 0>>, <<"B", 0, 0>>}

\* the callers of join: anyone after a reset, else as in Joiners
SeatJoiners == IF last.outcome = "reset" THEN Players ELSE Joiners

InitSeats ==
  /\ Holds(NewGame, NoCall, undefined)
  /\ budget = SeatAttempts
  /\ NoArea

NextSeats ==
  \/ \E player \in SeatJoiners : Join(player)
  \/ \E player \in Players : Leave(player)
  \/ \E player \in Players, cell \in SeatCells :
        ApplyMove(player, cell[1], cell[2], cell[3])

SpecSeats == InitSeats /\ [][NextSeats]_vars

(***************************************************************************)
(* The game area: a specification in which the engine is driven by the     *)
(* commands of the game area, which holds the current match, replaces a    *)
(* match that is over when a player joins, and records results.            *)
(***************************************************************************)
\* bound on the matches the game area creates
MaxGames == 2

\* bound on the accepted attempts, and how many moves before the end of a
\* test-suite match the game area is taken up
AreaAttempts == 1

\* the cells of the commands: the last cells of the test-suite matches and
\* a cell that holds a move in all of them
AreaCells ==
  {<<"A", 0, 0>>, <<"B", 0, 2>>, <<"C", 2, 0>>, <<"C", 2, 1>>}

\* the ids of the matches, in the order in which they are created (the
\* engine draws a fresh id for every match)
GameIdSeq == <<"g1", "g2", "g3", "g4">>

\* the ids a command may carry: those of the matches created, current or
\* retired, and of matches not created yet
GameIds == {GameIdSeq[i] : i \in 1 .. MaxGames}

\* how many matches the game area has created
Created ==
  IF _game = undefined THEN 0
  ELSE CHOOSE i \in 1 .. Len(GameIdSeq) : GameIdSeq[i] = _game

\* _stateUpdated that records the result at every update of a match that
\* is over
_stateUpdated_recordsAgain(history, gameID, st) ==
  IF st.status = "OVER" /\ gameID # undefined
       /\ st.x # undefined /\ st.o # undefined
  THEN Append(history,
              [gameID |-> gameID,
               scores |-> (st.o :> st.oScore) @@ (st.x :> st.xScore)])
  ELSE history

\* _stateUpdated: the history after the update; the players are named by
\* their ids
_stateUpdated(history, gameID, st) ==
  IF st.status = "OVER" /\ gameID # undefined
       /\ ~ (\E i \in DOMAIN history : history[i].gameID = gameID)
       /\ st.x # undefined /\ st.o # undefined
  THEN Append(history,
              [gameID |-> gameID,
               scores |-> (st.o :> st.oScore) @@ (st.x :> st.xScore)])
  ELSE history

\* handleCommand, JoinGame that joins the current match even when it is over
JoinGame_keepsOverMatch(player) ==
  LET fresh == _game = undefined
      game == IF fresh THEN NewGame ELSE Game
      id == IF fresh THEN GameIdSeq[Created + 1] ELSE _game
      res == _join(game, player)
  IN  /\ fresh => Created < MaxGames
      /\ Becomes(res.g)
      /\ _game' = id
      /\ _history' = IF res.err = "none"
                     THEN _stateUpdated(_history, id, res.g.state)
                     ELSE _history
      /\ last' = [JoinCall(player, res) EXCEPT !.gameID = id]
      /\ lastMover' = IF fresh THEN undefined ELSE lastMover
      /\ UNCHANGED budget

\* handleCommand, JoinGame: a new match if there is none or the current one
\* is over (this._game is assigned before join is called), then join
JoinGame(player) ==
  LET fresh == _game = undefined \/ state.status = "OVER"
      game == IF fresh THEN NewGame ELSE Game
      id == IF fresh THEN GameIdSeq[Created + 1] ELSE _game
      res == _join(game, player)
  IN  /\ fresh => Created < MaxGames
      /\ Becomes(res.g)
      /\ _game' = id
      /\ _history' = IF res.err = "none"
                     THEN _stateUpdated(_history, id, res.g.state)
                     ELSE _history
      /\ last' = [JoinCall(player, res) EXCEPT !.gameID = id]
      /\ lastMover' = IF fresh THEN undefined ELSE lastMover
      /\ UNCHANGED budget

\* handleCommand, GameMove that does not compare the ids
GameMove_anyId(player, gameID, board, row, col) ==
  LET res == IF _game = undefined THEN Throw(Game, "NoGame")
             ELSE applyMove(Game, player, board, row, col)
  IN  /\ res.err = "none" => budget > 0
      /\ Becomes(res.g)
      /\ _history' = IF res.err = "none"
                     THEN _stateUpdated(_history, _game, res.g.state)
                     ELSE _history
      /\ last' = [MoveCall(player, board, row, col, res)
                    EXCEPT !.gameID = gameID]
      /\ lastMover' = IF res.err = "none" THEN PieceOf(state, player)
                      ELSE lastMover
      /\ budget' = IF res.err = "none" THEN budget - 1 ELSE budget
      /\ UNCHANGED _game

\* handleCommand, GameMove: accepted attempts are explored while the budget
\* lasts
GameMove(player, gameID, board, row, col) ==
  LET res == IF _game = undefined THEN Throw(Game, "NoGame")
             ELSE IF _game # gameID THEN Throw(Game, "IdMismatch")
             ELSE applyMove(Game, player, board, row, col)
  IN  /\ res.err = "none" => budget > 0
      /\ Becomes(res.g)
      /\ _history' = IF res.err = "none"
                     THEN _stateUpdated(_history, _game, res.g.state)
                     ELSE _history
      /\ last' = [MoveCall(player, board, row, col, res)
                    EXCEPT !.gameID = gameID]
      /\ lastMover' = IF res.err = "none" THEN PieceOf(state, player)
                      ELSE lastMover
      /\ budget' = IF res.err = "none" THEN budget - 1 ELSE budget
      /\ UNCHANGED _game

\* handleCommand, LeaveGame
LeaveGame(player, gameID) ==
  LET res == IF _game = undefined THEN Throw(Game, "NoGame")
             ELSE IF _game # gameID THEN Throw(Game, "IdMismatch")
             ELSE _leave(Game, player)
  IN  /\ Becomes(res.g)
      /\ _history' = IF res.err = "none"
                     THEN _stateUpdated(_history, _game, res.g.state)
                     ELSE _history
      /\ last' = [LeaveCall(player, res) EXCEPT !.gameID = gameID]
      /\ lastMover' = IF res.outcome = "reset" THEN undefined ELSE lastMover
      /\ UNCHANGED <<budget, _game>>

\* the game area before any command, or holding as its first match a
\* test-suite match AreaAttempts moves before its end
InitArea ==
  /\ budget = AreaAttempts
  /\ _history = <<>>
  /\ \/ Holds(NewGame, NoCall, undefined) /\ _game = undefined
     \/ \E script \in Scripts :
          LET from == Replay(script[1], script[2],
                             Len(script[2]) - AreaAttempts)
          IN  /\ Holds(from.g, [from.call EXCEPT !.gameID = GameIdSeq[1]],
                       from.mover)
              /\ _game = GameIdSeq[1]

NextArea ==
  \/ \E player \in Players : JoinGame(player)
  \/ \E player \in Players, gameID \in GameIds, cell \in AreaCells :
        GameMove(player, gameID, cell[1], cell[2], cell[3])
  \/ \E player \in Players, gameID \in GameIds : LeaveGame(player, gameID)

SpecArea == InitArea /\ [][NextArea]_vars

(***************************************************************************)
(* The client controller: what _updateFrom computes from the state         *)
(* snapshots the engine publishes.                                         *)
(***************************************************************************)
\* a view that shows every recorded move, visible or not
BoardView_showsAllMoves(st, ourPlayerID) ==
  [board \in BoardSet |-> [row \in Idx |-> [col \in Idx |->
     FindAt(st.moves, board, row, col)]]]

\* the boards _updateFrom shows to ourPlayerID: first the moves of our own
\* piece (forEach, a later move overwrites), then, at every publicly visible
\* cell, the first recorded move at the cell
BoardView(st, ourPlayerID) ==
  [board \in BoardSet |-> [row \in Idx |-> [col \in Idx |->
     LET isOurMove(move) ==
           \/ move.gamePiece = "X" /\ st.x = ourPlayerID
           \/ move.gamePiece = "O" /\ st.o = ourPlayerID
         ours == {i \in 1 .. Len(st.moves) :
                    /\ isOurMove(st.moves[i])
                    /\ st.moves[i].board = board
                    /\ st.moves[i].row = row
                    /\ st.moves[i].col = col}
         firstMove == FindAt(st.moves, board, row, col)
     IN  IF st.publiclyVisible[board][row][col] /\ firstMove # undefined
         THEN firstMove
         ELSE IF ours = {} THEN undefined
         ELSE st.moves[CHOOSE i \in ours : \A j \in ours : i >= j].gamePiece]]]

\* the cells that are publicly visible in the new snapshot and were not in
\* the old one
NewlyVisible(oldPubliclyVisible, newPubliclyVisible) ==
  {cell \in BoardSet \X Idx \X Idx :
     /\ ~ oldPubliclyVisible[cell[1]][cell[2]][cell[3]]
     /\ newPubliclyVisible[cell[1]][cell[2]][cell[3]]}

\* the number of cells that became publicly visible and hold no move
_detectCollisions(oldPubliclyVisible, newPubliclyVisible, newMoves) ==
  Cardinality({cell \in NewlyVisible(oldPubliclyVisible, newPubliclyVisible) :
                 FindAt(newMoves, cell[1], cell[2], cell[3]) = undefined})

\* what _updateFrom adds to _collisionCount when the snapshot newSt arrives
\* and oldSt is the snapshot the controller held: the collisions detected
\* and, when there are none and no move was added, the newly visible cells
_updateFrom(oldSt, newSt) ==
  LET moveCountDifference == Len(newSt.moves) - Len(oldSt.moves)
      newCollisions ==
        _detectCollisions(oldSt.publiclyVisible, newSt.publiclyVisible,
                          newSt.moves)
      newlyVisibleSquares ==
        Cardinality(NewlyVisible(oldSt.publiclyVisible, newSt.publiclyVisible))
  IN  newCollisions
        + (IF moveCountDifference = 0 /\ newCollisions = 0
           THEN newlyVisibleSquares ELSE 0)

\* get moveCount, for the snapshot st and the collision count of the
\* controller
moveCount(st, collisionCount) == Len(st.moves) + collisionCount

\* get whoseTurn
whoseTurn(st, collisionCount) ==
  IF st.x = undefined \/ st.o = undefined \/ st.status # "IN_PROGRESS"
  THEN undefined
  ELSE IF moveCount(st, collisionCount) % 2 = 0 THEN st.x
  ELSE st.o

(***************************************************************************)
(* What the claims speak of, read off the variables                       *)
(***************************************************************************)
EngineVars == <<state, _games, _xScore, _oScore, _moveCount>>

Seat(player) ==
  IF player = state.x THEN "X" ELSE IF player = state.o THEN "O" ELSE undefined

Other(piece) == IF piece = "X" THEN "O" ELSE "X"

\* it is the piece's turn when the attempt counter is count
OnTurnAt(piece, count) ==
  \/ piece = "X" /\ count % 2 = 0
  \/ piece = "O" /\ count % 2 = 1

OnTurn(piece) == OnTurnAt(piece, _moveCount)

\* the piece has a recorded move at the cell
Recorded(board, row, col, piece) ==
  \E i \in DOMAIN state.moves :
     state.moves[i] = [board |-> board, row |-> row, col |-> col,
                       gamePiece |-> piece]

\* the rows, columns and diagonals of a 3x3 grid, as sets of cells
LineSet ==
  {{<<r, c>> : c \in Idx} : r \in Idx}
    \cup {{<<r, c>> : r \in Idx} : c \in Idx}
    \cup {{<<i, i>> : i \in Idx}, {<<i, 2 - i>> : i \in Idx}}

\* the cells of the board where the piece has a recorded move
CellsOf(board, piece) ==
  {<<state.moves[i].row, state.moves[i].col>> :
     i \in {k \in DOMAIN state.moves :
              /\ state.moves[k].board = board
              /\ state.moves[k].gamePiece = piece}}

HasLine(board, piece) ==
  LET cells == CellsOf(board, piece)
  IN  \E line \in LineSet : line \subseteq cells

BoardWon(board) == HasLine(board, "X") \/ HasLine(board, "O")

\* the step is an applyMove call by a seated player on a match in progress
SeatedMove ==
  /\ last'.op = "applyMove"
  /\ state.status = "IN_PROGRESS"
  /\ Seat(last'.player) # undefined

\* a collision has been accepted in this match
SomeCollision == _moveCount > Len(state.moves)

(***************************************************************************)
(* C1  Turns alternate under the attempt counter: an applyMove by a seat   *)
(* is accepted only when the counter's parity is the seat's (X even, O     *)
(* odd); on an unwon board and a cell the seat does not own it is accepted *)
(* iff the parity matches and is rejected with OutOfTurn otherwise; every  *)
(* accepted attempt is by the seat other than the previous accepted one.   *)
(***************************************************************************)
C1_TurnsAlternate ==
  [][SeatedMove =>
       LET piece == Seat(last'.player)
           free == /\ ~ BoardWon(last'.board)
                   /\ ~ Recorded(last'.board, last'.row, last'.col, piece)
       IN  /\ last'.err = "none" => OnTurn(piece) /\ piece # lastMover
           /\ free => (last'.err = "none" <=> OnTurn(piece))
           /\ free /\ ~ OnTurn(piece) => last'.err = "OutOfTurn"
           /\ free /\ piece = lastMover => last'.err = "OutOfTurn"]_vars

\* a seat that has just lost its turn by a collision is rejected with
\* OutOfTurn on an unwon board and a cell it does not own
C1_Witness ==
  /\ last.op = "applyMove"
  /\ last.err = "OutOfTurn"
  /\ Seat(last.player) = lastMover
  /\ SomeCollision
  /\ _moveCount # Len(state.moves) + 2

(***************************************************************************)
(* C2  Collision: the seat on turn calls applyMove on a cell of an unwon   *)
(* board where the opposing piece has a recorded move; the call returns    *)
(* normally, moves is unchanged, the cell is revealed afterwards, the      *)
(* attempt counter is one more and the turn is the opponent's.             *)
(***************************************************************************)
C2_Collision ==
  [][(/\ SeatedMove
      /\ OnTurn(Seat(last'.player))
      /\ ~ BoardWon(last'.board)
      /\ Recorded(last'.board, last'.row, last'.col, Other(Seat(last'.player))))
     => /\ last'.err = "none"
        /\ state'.moves = state.moves
        /\ state'.publiclyVisible[last'.board][last'.row][last'.col] = TRUE
        /\ _moveCount' = _moveCount + 1
        /\ state'.status = "IN_PROGRESS"
        /\ OnTurnAt(Other(Seat(last'.player)), _moveCount')]_vars

C2_Witness ==
  /\ last.op = "applyMove"
  /\ last.err = "none"
  /\ last.outcome = "collided"
  /\ Recorded(last.board, last.row, last.col, Other(Seat(last.player)))
  /\ state.publiclyVisible[last.board][last.row][last.col]
  /\ OnTurn(Other(Seat(last.player)))

(***************************************************************************)
(* C3  The attempt counter increases by exactly 1 on every applyMove that  *)
(* passes validation (placement or collision) and is changed by no other   *)
(* step; an applyMove rejected with NotInProgress, NotInGame,              *)
(* BoardAlreadyWon, CellAlreadyOwnedBySelf or OutOfTurn leaves the counter *)
(* and whose turn it is unchanged.                                         *)
(***************************************************************************)
C3_CounterSteps ==
  [][/\ (last'.op = "applyMove" /\ last'.err = "none")
          => /\ _moveCount' = _moveCount + 1
             /\ last'.outcome \in {"placed", "collided"}
     /\ (last'.op = "applyMove" /\ last'.err # "none")
          => /\ last'.err \in {"NotInProgress", "NotInGame", "BoardAlreadyWon",
                               "CellAlreadyOwnedBySelf", "OutOfTurn"}
             /\ _moveCount' = _moveCount
             /\ \A piece \in {"X", "O"} : OnTurn(piece)' <=> OnTurn(piece)
     /\ last'.op # "applyMove" => _moveCount' = _moveCount]_vars

\* a rejected call in a match whose counter is ahead of moves.length
C3_Witness ==
  /\ last.op = "applyMove"
  /\ last.err \in {"BoardAlreadyWon", "CellAlreadyOwnedBySelf", "OutOfTurn"}
  /\ SomeCollision
  /\ _moveCount >= 3

(***************************************************************************)
(* C4  Failure atomicity: a join, leave or applyMove call that fails with  *)
(* an error leaves the whole match unchanged: seats, status, moves,        *)
(* revealed cells, scores, attempt counter and winner.                     *)
(***************************************************************************)
C4_FailureAtomic ==
  [][last'.err # "none" => UNCHANGED EngineVars]_vars

\* a failed call on a match that has moves, a revealed cell and a score
C4_Witness ==
  /\ last.err # "none"
  /\ state.xScore + state.oScore > 0
  /\ SomeCollision

(***************************************************************************)
(* C5  Validation precedence for a seated player while IN_PROGRESS:        *)
(* BoardAlreadyWon if the target board has a three-in-a-row; otherwise     *)
(* CellAlreadyOwnedBySelf if the same piece has a recorded move at the     *)
(* cell; otherwise OutOfTurn if the counter's parity is not the piece's;   *)
(* the error is that of the first failing check, also when several fail.   *)
(***************************************************************************)
C5_Precedence ==
  [][SeatedMove =>
       LET piece == Seat(last'.player)
       IN  last'.err =
             IF BoardWon(last'.board) THEN "BoardAlreadyWon"
             ELSE IF Recorded(last'.board, last'.row, last'.col, piece)
                  THEN "CellAlreadyOwnedBySelf"
             ELSE IF ~ OnTurn(piece) THEN "OutOfTurn"
             ELSE "none"]_vars

\* all three checks fail at once and the first one is reported
C5_Witness ==
  /\ last.op = "applyMove"
  /\ last.err = "BoardAlreadyWon"
  /\ state.status = "IN_PROGRESS"
  /\ BoardWon(last.board)
  /\ Recorded(last.board, last.row, last.col, Seat(last.player))
  /\ ~ OnTurn(Seat(last.player))
  /\ SomeCollision

(***************************************************************************)
(* C6  As stated: a seated player who calls applyMove out of turn on a     *)
(* board that is already won receives OutOfTurn, not BoardAlreadyWon.      *)
(***************************************************************************)
C6_OutOfTurnOnWonBoard ==
  [][(/\ SeatedMove
      /\ BoardWon(last'.board)
      /\ ~ OnTurn(Seat(last'.player)))
     => last'.err = "OutOfTurn"]_vars

(***************************************************************************)
(* C6  As the engine does it: a seated player who calls applyMove on a     *)
(* board that is already won receives BoardAlreadyWon, on turn or out of   *)
(* turn; OutOfTurn is reported only for a call on an unwon board and a     *)
(* cell the caller's piece has no recorded move at.                        *)
(***************************************************************************)
C6_WonBoardBeforeTurn ==
  [][SeatedMove =>
       /\ BoardWon(last'.board)
            => /\ last'.err = "BoardAlreadyWon"
               /\ Message(last'.err) = BOARD_POSITION_NOT_EMPTY_MESSAGE
       /\ last'.err = "OutOfTurn"
            => /\ ~ OnTurn(Seat(last'.player))
               /\ ~ BoardWon(last'.board)
               /\ ~ Recorded(last'.board, last'.row, last'.col,
                             Seat(last'.player))]_vars

\* out of turn on a won board: the board-won site throws, with the
\* not-empty message
C6_Witness ==
  /\ last.op = "applyMove"
  /\ last.err = "BoardAlreadyWon"
  /\ Message(last.err) # MOVE_NOT_YOUR_TURN_MESSAGE
  /\ state.status = "IN_PROGRESS"
  /\ BoardWon(last.board)
  /\ ~ OnTurn(Seat(last.player))

(***************************************************************************)
(* C7  applyMove fails with NotInProgress whenever status is not           *)
(* IN_PROGRESS (WAITING_TO_START, or OVER after a score win, a tie or a    *)
(* forfeit), for every caller, board and cell; the check comes before      *)
(* every other validation.                                                 *)
(***************************************************************************)
C7_NotInProgress ==
  [][(last'.op = "applyMove" /\ state.status # "IN_PROGRESS")
     => /\ last'.err = "NotInProgress"
        /\ Message(last'.err) = GAME_NOT_IN_PROGRESS_MESSAGE
        /\ UNCHANGED EngineVars]_vars

\* the match is OVER by a score of 2 and the caller holds no seat
C7_Witness ==
  /\ last.op = "applyMove"
  /\ last.err = "NotInProgress"
  /\ state.status = "OVER"
  /\ state.xScore = 2 \/ state.oScore = 2
  /\ Seat(last.player) = undefined

(***************************************************************************)
(* C8  A player who holds neither seat never changes the match through     *)
(* leave or applyMove: leave fails with NotSeated; applyMove fails with    *)
(* NotInGame while IN_PROGRESS, whatever the board, cell and turn parity,  *)
(* and with NotInProgress otherwise.                                       *)
(***************************************************************************)
C8_OutsiderChangesNothing ==
  [][(last'.op \in {"leave", "applyMove"} /\ Seat(last'.player) = undefined)
     => /\ UNCHANGED EngineVars
        /\ last'.op = "leave" => last'.err = "NotSeated"
        /\ last'.op = "applyMove" =>
             last'.err = IF state.status = "IN_PROGRESS" THEN "NotInGame"
                         ELSE "NotInProgress"]_vars

\* an outsider's applyMove on a won board of a match in progress
C8_Witness ==
  /\ last.op = "applyMove"
  /\ last.err = "NotInGame"
  /\ Seat(last.player) = undefined
  /\ state.status = "IN_PROGRESS"
  /\ BoardWon(last.board)

(***************************************************************************)
(* C9  A won board is frozen: once a board has a three-in-a-row, every     *)
(* later applyMove that targets it is rejected (BoardAlreadyWon for the    *)
(* seat whose turn it is), also on a cell the opponent holds; the board's  *)
(* recorded moves and revealed cells never change again, it stays won, and *)
(* such an attempt consumes no turn.                                       *)
(***************************************************************************)
C9_WonBoardFrozen ==
  [][\A b \in BoardSet :
       BoardWon(b) =>
         /\ BoardWon(b)'
         /\ BoardMoves(state'.moves, b) = BoardMoves(state.moves, b)
         /\ state'.publiclyVisible[b] = state.publiclyVisible[b]
         /\ (last'.op = "applyMove" /\ last'.board = b) =>
              /\ last'.err # "none"
              /\ _moveCount' = _moveCount
              /\ UNCHANGED EngineVars
              /\ (state.status = "IN_PROGRESS" /\ OnTurn(Seat(last'.player)))
                   => last'.err = "BoardAlreadyWon"]_vars

\* the seat on turn aims at an unrevealed cell the opponent holds on a won
\* board: no collision
C9_Witness ==
  /\ last.op = "applyMove"
  /\ last.err = "BoardAlreadyWon"
  /\ BoardWon(last.board)
  /\ OnTurn(Seat(last.player))
  /\ Recorded(last.board, last.row, last.col, Other(Seat(last.player)))
  /\ ~ state.publiclyVisible[last.board][last.row][last.col]

(***************************************************************************)
(* C10  moves holds at most one recorded move per (board, row, col,        *)
(* piece): an attempt of a seat on a cell where its piece has a recorded   *)
(* move is always rejected and records nothing; in a match in progress it  *)
(* is rejected with the not-empty message, by the own-cell check           *)
(* (CellAlreadyOwnedBySelf) when the board is not won, on turn or not.     *)
(***************************************************************************)
NoDuplicateMoves ==
  \A i, j \in DOMAIN state.moves : state.moves[i] = state.moves[j] => i = j

OwnCellRejected ==
  (/\ last'.op = "applyMove"
   /\ Seat(last'.player) # undefined
   /\ Recorded(last'.board, last'.row, last'.col, Seat(last'.player)))
  => /\ last'.err # "none"
     /\ state'.moves = state.moves
     /\ state.status = "IN_PROGRESS"
          => /\ Message(last'.err) = BOARD_POSITION_NOT_EMPTY_MESSAGE
             /\ ~ BoardWon(last'.board) => last'.err = "CellAlreadyOwnedBySelf"

C10_OneMovePerCellAndPiece ==
  /\ []NoDuplicateMoves
  /\ [][OwnCellRejected]_vars

\* a seat on turn aims at its own cell on an unwon board
C10_Witness ==
  /\ last.op = "applyMove"
  /\ last.err = "CellAlreadyOwnedBySelf"
  /\ OnTurn(Seat(last.player))
  /\ Recorded(last.board, last.row, last.col, Seat(last.player))
  /\ Len(state.moves) >= 2

(***************************************************************************)
(* C11  After a collision at a cell has been resolved (the cell is         *)
(* revealed), every later applyMove of a seated player on that cell, by    *)
(* the owner of the recorded move or by the seat that collided, is         *)
(* rejected with an error and consumes no turn.                            *)
(***************************************************************************)
C11_NoWriteAfterCollision ==
  [][(/\ last'.op = "applyMove"
      /\ Seat(last'.player) # undefined
      /\ state.publiclyVisible[last'.board][last'.row][last'.col])
     => /\ last'.err # "none"
        /\ _moveCount' = _moveCount]_vars

\* the seat that collided at the cell collides there once more: the call
\* returns normally and the turn passes
C11_CollidesAgain ==
  /\ last.op = "applyMove"
  /\ last.outcome = "collided"
  /\ _moveCount >= 4
  /\ Len(state.moves) = 2
  /\ Cardinality({c \in BoardSet \X Idx \X Idx :
                    state.publiclyVisible[c[1]][c[2]][c[3]]}) = 1

(***************************************************************************)
(* C12  In every reachable state xScore is the number of boards on which   *)
(* X has a completed line in the current moves, and oScore the number on   *)
(* which O has one (the public and the private copy alike): the scores are *)
(* a function of moves alone, and xScore + oScore is at most 3.            *)
(***************************************************************************)
C12_ScoresFromMoves ==
  /\ state.xScore = Cardinality({b \in BoardSet : HasLine(b, "X")})
  /\ state.oScore = Cardinality({b \in BoardSet : HasLine(b, "O")})
  /\ _xScore = state.xScore
  /\ _oScore = state.oScore
  /\ state.xScore + state.oScore <= 3

\* a placement completes X's second line while O has one: 2-1
C12_Witness ==
  /\ last.op = "applyMove"
  /\ last.outcome = "placed"
  /\ state.xScore = 2
  /\ state.oScore = 1
  /\ Cardinality({b \in BoardSet : HasLine(b, "X")}) = 2

(***************************************************************************)
(* C13  A board has at most one winner for ever: in no reachable state     *)
(* does a board hold a completed line for X and a completed line for O,    *)
(* and once _getBoardWinner reports a piece as the winner of a board it    *)
(* reports that piece for the board in every later state of the match.     *)
(***************************************************************************)
OneWinnerPerBoard ==
  \A b \in BoardSet :
     /\ ~ (HasLine(b, "X") /\ HasLine(b, "O"))
     /\ \A piece \in {"X", "O"} :
          _getBoardWinner(state.moves, b) = piece <=> HasLine(b, piece)

\* a step that leaves moves alone keeps every winner
WinnerKept ==
  \/ state'.moves = state.moves
  \/ \A b \in BoardSet :
        _getBoardWinner(state.moves, b) # undefined
          => _getBoardWinner(state'.moves, b) = _getBoardWinner(state.moves, b)

C13_OneWinnerForEver ==
  /\ []OneWinnerPerBoard
  /\ [][WinnerKept]_vars

\* O, on turn, aims at the cell that would complete its row on the board X
\* has won
C13_Witness ==
  /\ last.op = "applyMove"
  /\ last.err = "BoardAlreadyWon"
  /\ Seat(last.player) = "O"
  /\ OnTurn("O")
  /\ _getBoardWinner(state.moves, last.board) = "X"
  /\ \E line \in LineSet :
        /\ <<last.row, last.col>> \in line
        /\ line \ {<<last.row, last.col>>} \subseteq CellsOf(last.board, "O")

(***************************************************************************)
(* C14  Game end by score: the step that raises xScore or oScore to 2 is   *)
(* an applyMove that, in the same step, sets status to OVER and winner to  *)
(* the seat whose score is 2, also when boards still have empty cells; so  *)
(* in every IN_PROGRESS state both scores are at most 1.                   *)
(***************************************************************************)
ScoreBelowTwoInProgress ==
  state.status = "IN_PROGRESS" => state.xScore <= 1 /\ state.oScore <= 1

EndsByScore ==
  /\ (state.xScore < 2 /\ state'.xScore >= 2)
       => /\ last'.op = "applyMove"
          /\ state'.xScore = 2
          /\ state'.status = "OVER"
          /\ state'.winner = state'.x
  /\ (state.oScore < 2 /\ state'.oScore >= 2)
       => /\ last'.op = "applyMove"
          /\ state'.oScore = 2
          /\ state'.status = "OVER"
          /\ state'.winner = state'.o

C14_EndByScore ==
  /\ []ScoreBelowTwoInProgress
  /\ [][EndsByScore]_vars

\* O's second board ends the match 0-2 while the third board, unwon, still
\* has empty cells
C14_Witness ==
  /\ last.op = "applyMove"
  /\ last.outcome = "placed"
  /\ state.oScore = 2
  /\ state.xScore = 0
  /\ state.status = "OVER"
  /\ state.winner = state.o
  /\ HasAvailableMove(state.moves)

(***************************************************************************)
(* C15  Game end by exhaustion: after a placement that leaves both scores  *)
(* below 2, if every board is won or holds 9 recorded moves then status is *)
(* OVER and winner is the seat with the strictly higher score, or          *)
(* undefined when the scores are equal.                                    *)
(***************************************************************************)
Exhausted ==
  \A b \in BoardSet : BoardWon(b) \/ Len(BoardMoves(state.moves, b)) = 9

EndsByExhaustion ==
  (/\ last'.op = "applyMove"
   /\ last'.outcome = "placed"
   /\ state'.xScore < 2
   /\ state'.oScore < 2
   /\ Exhausted')
  => /\ state'.status = "OVER"
     /\ state'.winner = IF state'.xScore > state'.oScore THEN state'.x
                        ELSE IF state'.oScore > state'.xScore THEN state'.o
                        ELSE undefined

EndsOnlyWhenDue ==
  (/\ last'.op = "applyMove"
   /\ last'.err = "none"
   /\ state.status = "IN_PROGRESS")
  => IF /\ last'.outcome = "placed"
        /\ (state'.xScore >= 2 \/ state'.oScore >= 2 \/ Exhausted')
     THEN TRUE
     ELSE /\ state'.status = "IN_PROGRESS"
          /\ state'.winner = undefined

C16_NoPrematureEnd == [][EndsOnlyWhenDue]_vars

\* O wins a board after X has won one: 1-1, board C still open, in progress
C16_Witness ==
  /\ last.op = "applyMove"
  /\ last.outcome = "placed"
  /\ state.xScore = 1
  /\ state.oScore = 1
  /\ HasLine(last.board, Seat(last.player))
  /\ ~ Exhausted
  /\ state.status = "IN_PROGRESS"

(***************************************************************************)
(* C17  Once status is OVER, no later join, leave or applyMove call,       *)
(* successful or failing, by any player, changes moves, the revealed cells *)
(* or the scores.                                                          *)
(***************************************************************************)
FrozenWhenOver ==
  state.status = "OVER"
    => /\ state'.moves = state.moves
       /\ state'.publiclyVisible = state.publiclyVisible
       /\ state'.xScore = state.xScore
       /\ state'.oScore = state.oScore
       /\ _xScore' = _xScore
       /\ _oScore' = _oScore

C17_OverIsFrozen == [][FrozenWhenOver]_vars

\* a seated player leaves a match that a second board win had ended: the
\* call returns normally
C17_Witness ==
  /\ last.op = "leave"
  /\ last.err = "none"
  /\ state.status = "OVER"
  /\ (state.xScore = 2 \/ state.oScore = 2)
  /\ Len(state.moves) > 0

(***************************************************************************)
(* C18  winner is set only by the step in which status becomes OVER: it is *)
(* undefined in every state whose status is not OVER, and once status is   *)
(* OVER (by score, by exhaustion or by forfeit) no later join, leave or    *)
(* applyMove call changes winner.                                          *)
(***************************************************************************)
NoWinnerBeforeOver == state.status # "OVER" => state.winner = undefined

WinnerKeptWhenOver == state.status = "OVER" => state'.winner = state.winner

C18_WinnerSetOnce ==
  /\ []NoWinnerBeforeOver
  /\ [][WinnerKeptWhenOver]_vars

\* the winner of a match that is over leaves it, and the other seat is the
\* winner afterwards
C18_WinnerLeaves ==
  /\ last.op = "leave"
  /\ last.err = "none"
  /\ state.status = "OVER"
  /\ state.winner # undefined
  /\ state.winner # last.player
  /\ (state.xScore = 2 => state.winner = state.o)
  /\ (state.xScore = 2 \/ state.oScore = 2)
  /\ (state.oScore = 2 => state.winner = state.x)

(***************************************************************************)
(* C19  join seats players in order: on a match with no seat filled the    *)
(* joining player gets seat X and status stays WAITING_TO_START; a second, *)
(* different player gets seat O and status becomes IN_PROGRESS with no     *)
(* recorded moves, zero scores, nothing revealed and _moveCount 0, so that *)
(* X moves first.                                                          *)
(***************************************************************************)
JoinSeatsInOrder ==
  (last'.op = "join" /\ last'.err = "none")
  => IF state.x = undefined
     THEN /\ state.o = undefined
          /\ state'.x = last'.player
          /\ state'.o = undefined
          /\ state'.status = "WAITING_TO_START"
     ELSE /\ state.o = undefined
          /\ state'.x = state.x
          /\ state'.o = last'.player
          /\ state'.o # state'.x
          /\ state'.status = "IN_PROGRESS"
          /\ state'.moves = <<>>
          /\ state'.xScore = 0 /\ state'.oScore = 0
          /\ _xScore' = 0 /\ _oScore' = 0
          /\ state'.publiclyVisible = NoneVisible
          /\ state'.winner = undefined
          /\ _moveCount' = 0
          /\ OnTurnAt("X", _moveCount')

C19_JoinSeatsInOrder == [][JoinSeatsInOrder]_vars

\* the second player has taken seat O and the match has started
C19_Witness ==
  /\ last.op = "join"
  /\ last.err = "none"
  /\ state.x # undefined
  /\ state.o = last.player
  /\ state.status = "IN_PROGRESS"

(***************************************************************************)
(* C20  join fails with AlreadySeated (PLAYER_ALREADY_IN_GAME_MESSAGE)     *)
(* when the player already holds seat X or O, and with Full                *)
(* (GAME_FULL_MESSAGE) when both seats are held by other players; in both  *)
(* cases the seats, the status and the rest of the match are unchanged,    *)
(* and join fails in no other case.                                        *)
(***************************************************************************)
JoinFails ==
  last'.op = "join"
  => /\ last'.player \in {state.x, state.o}
          => /\ last'.err = "AlreadySeated"
             /\ Message(last'.err) = PLAYER_ALREADY_IN_GAME_MESSAGE
     /\ (/\ last'.player \notin {state.x, state.o}
         /\ state.x # undefined
         /\ state.o # undefined)
          => /\ last'.err = "Full"
             /\ Message(last'.err) = GAME_FULL_MESSAGE
     /\ last'.err # "none"
          => /\ UNCHANGED EngineVars
             /\ \/ last'.player \in {state.x, state.o}
                \/ state.x # undefined /\ state.o # undefined

C20_JoinFails == [][JoinFails]_vars

\* a third player is turned away from a match whose seats are both held
C20_Witness ==
  /\ last.op = "join"
  /\ last.err = "Full"
  /\ last.player \notin {state.x, state.o}
  /\ state.x # undefined
  /\ state.o # undefined

(***************************************************************************)
(* C21  join followed by leave of the only seated player is a round trip   *)
(* to the initial state: the match is again the match of the constructor   *)
(* (WAITING_TO_START, both seats empty, no moves, zero scores, nothing     *)
(* revealed, _moveCount 0), and the join that follows succeeds and takes   *)
(* seat X.                                                                 *)
(***************************************************************************)
LeaveAloneResets ==
  (/\ last'.op = "leave"
   /\ last'.player = state.x
   /\ state.o = undefined)
  => /\ last'.err = "none"
     /\ Game' = NewGame
     /\ state'.status = "WAITING_TO_START"
     /\ state'.x = undefined /\ state'.o = undefined
     /\ state'.moves = <<>>
     /\ state'.xScore = 0 /\ state'.oScore = 0
     /\ state'.publiclyVisible = NoneVisible
     /\ _moveCount' = 0

JoinAfterReset ==
  (last.outcome = "reset" /\ last'.op = "join")
  => /\ last'.err = "none"
     /\ state'.x = last'.player
     /\ state'.status = "WAITING_TO_START"

C21_JoinLeaveRoundTrip == [][LeaveAloneResets /\ JoinAfterReset]_vars

\* the only seated player has left
C21_Witness ==
  /\ last.op = "leave"
  /\ last.outcome = "reset"
  /\ Game = NewGame

(***************************************************************************)
(* C22  Forfeit: when both seats are filled and the match is IN_PROGRESS,  *)
(* leave by either seated player sets status to OVER and winner to the     *)
(* other seat, whatever the scores and whoever's turn it is; the seats,    *)
(* moves, the revealed cells, the scores and the attempt counter are left  *)
(* unchanged, and no further move is accepted.                             *)
(***************************************************************************)
Forfeit ==
  (/\ last'.op = "leave"
   /\ state.status = "IN_PROGRESS"
   /\ Seat(last'.player) # undefined)
  => /\ last'.err = "none"
     /\ state'.status = "OVER"
     /\ state'.winner = IF last'.player = state.x THEN state.o ELSE state.x
     /\ state'.winner # last'.player
     /\ state'.x = state.x /\ state'.o = state.o
     /\ state'.moves = state.moves
     /\ state'.publiclyVisible = state.publiclyVisible
     /\ state'.xScore = state.xScore /\ state'.oScore = state.oScore
     /\ UNCHANGED <<_games, _xScore, _oScore, _moveCount>>

NoMoveAfterOver ==
  (state.status = "OVER" /\ last'.op = "applyMove")
  => /\ last'.err = "NotInProgress"
     /\ UNCHANGED EngineVars

C22_Forfeit == [][Forfeit /\ NoMoveAfterOver]_vars

\* X, a board ahead, has left while it was O's turn: O is the winner and X's
\* next move is turned down
C22_Witness ==
  /\ last.op = "applyMove"
  /\ last.err = "NotInProgress"
  /\ last.player = state.x
  /\ state.status = "OVER"
  /\ state.winner = state.o
  /\ state.xScore = 1
  /\ state.oScore = 0
  /\ OnTurn("O")

(***************************************************************************)
(* C23  Status matches seat occupancy in every reachable state: status is  *)
(* WAITING_TO_START iff fewer than two seats are filled, and status        *)
(* IN_PROGRESS or OVER implies both seats are filled.                      *)
(***************************************************************************)
SeatsFilled == Cardinality({seat \in {state.x, state.o} : seat # undefined})

C23_StatusMatchesSeats ==
  /\ state.status \in {"WAITING_TO_START", "IN_PROGRESS", "OVER"}
  /\ state.status = "WAITING_TO_START" <=> SeatsFilled < 2
  /\ state.status \in {"IN_PROGRESS", "OVER"}
       => state.x # undefined /\ state.o # undefined

\* a seated player has left a started match: OVER, and both seats still held
C23_Witness ==
  /\ last.op = "leave"
  /\ last.outcome = "forfeit"
  /\ state.status = "OVER"
  /\ state.x # undefined
  /\ state.o # undefined
  /\ last.player \in {state.x, state.o}

(***************************************************************************)
(* C24  Seats are unique and set once: seat X and seat O never hold the    *)
(* same player, seat O is never filled while seat X is empty, and once a   *)
(* seat has been assigned to a player it is never assigned to a different  *)
(* player nor swapped with the other seat, over any sequence of join,      *)
(* leave and applyMove on the same match.                                  *)
(***************************************************************************)
UniqueSeats ==
  /\ state.x # undefined => state.x # state.o
  /\ state.o # undefined => state.x # undefined

\* no step hands a held seat to another player or swaps the seats
SeatNotHandedOver ==
  /\ state.x # undefined => state'.x \in {state.x, undefined}
  /\ state.o # undefined => state'.o \in {state.o, undefined}
  /\ state.x # undefined => state'.o # state.x
  /\ state.o # undefined => state'.x # state.o

\* the seat a player has vacated goes to no other player
SeatNotReassigned ==
  (last.outcome = "reset" /\ state'.x # undefined) => state'.x = last.player

C24_SeatsSetOnce ==
  /\ []UniqueSeats
  /\ [][SeatNotHandedOver /\ SeatNotReassigned]_vars

(***************************************************************************)
(* C24  As the engine does it: the seats are unique and seat O is never    *)
(* filled while seat X is empty; once both seats are filled neither is     *)
(* ever vacated, reassigned or swapped; while only seat X is filled it     *)
(* keeps its player until that player leaves, which vacates it (the        *)
(* reset), and then any player, the same or another, may take seat X.      *)
(***************************************************************************)
SeatStep ==
  /\ state.o # undefined => state'.o = state.o /\ state'.x = state.x
  /\ (state.x # undefined /\ state.o = undefined)
       => \/ state'.x = state.x /\ state'.o # state.x
          \/ /\ last'.op = "leave"
             /\ last'.player = state.x
             /\ state'.x = undefined
             /\ state'.o = undefined
  /\ (last.outcome = "reset" /\ last'.op = "join")
       => last'.err = "none" /\ state'.x = last'.player

C24_SeatsSetOnceUntilReset ==
  /\ []UniqueSeats
  /\ [][SeatStep]_vars

\* after a reset seat X went to a player other than the first who held it,
\* and the match was played
C24_Witness ==
  /\ state.x # undefined
  /\ state.x # PlayerSeq[1]
  /\ state.o # undefined
  /\ Len(state.moves) > 0

(***************************************************************************)
(* C25  moves is append-only: across every step the previous moves         *)
(* sequence is a prefix of the new one, a placement appends exactly one    *)
(* entry, the board, row, column and piece of the mover, at the end, every *)
(* other step leaves moves as it is, and no recorded move is removed or    *)
(* altered afterwards, also when its board is later won or the match ends. *)
(***************************************************************************)
AppendOnly ==
  IF last'.op = "applyMove" /\ last'.outcome = "placed"
  THEN state'.moves =
         Append(state.moves,
                [board |-> last'.board, row |-> last'.row, col |-> last'.col,
                 gamePiece |-> Seat(last'.player)])
  ELSE state'.moves = state.moves

C25_MovesAppendOnly == [][AppendOnly]_vars

\* the last placement of a match ended up behind the moves of a board won
\* earlier
C25_Witness ==
  /\ last.op = "applyMove"
  /\ last.outcome = "placed"
  /\ state.status = "OVER"
  /\ Len(state.moves) > 1
  /\ state.moves[Len(state.moves)].board = last.board
  /\ state.moves[Len(state.moves)].row = last.row
  /\ state.moves[Len(state.moves)].col = last.col
  /\ BoardWon(state.moves[1].board)
  /\ state.moves[1].board # last.board

(***************************************************************************)
(* C26  An OVER match is retired: status OVER is absorbing (no join, leave *)
(* or applyMove brings the match back to WAITING_TO_START or IN_PROGRESS)  *)
(* and every join on an OVER match fails, for the forfeiting player, the   *)
(* remaining player and any third player.                                  *)
(***************************************************************************)
OverIsAbsorbing ==
  state.status = "OVER"
    => /\ state'.status = "OVER"
       /\ last'.op = "join"
            => /\ last'.err # "none"
               /\ last'.err = IF last'.player \in {state.x, state.o}
                              THEN "AlreadySeated" ELSE "Full"

C26_OverIsRetired == [][OverIsAbsorbing]_vars

\* the player who forfeited asks to join again and is turned away
C26_Witness ==
  /\ last.op = "join"
  /\ last.err = "AlreadySeated"
  /\ state.status = "OVER"
  /\ state.winner # undefined
  /\ state.winner # last.player

(***************************************************************************)
(* C27  The revealed cells change only through collisions and only at the  *)
(* collided cell: a placement leaves every revealed cell unchanged (the    *)
(* newly placed cell stays unrevealed), a collision at (board, row, col)   *)
(* sets that cell to true and leaves every other cell of that board and    *)
(* every cell of the other two boards unchanged, and no other step changes *)
(* a cell.                                                                 *)
(***************************************************************************)
RevealedCells ==
  {c \in BoardSet \X Idx \X Idx : state.publiclyVisible[c[1]][c[2]][c[3]]}

RevealedFrame ==
  /\ IF last'.op = "applyMove" /\ last'.outcome = "collided"
     THEN /\ state'.publiclyVisible[last'.board][last'.row][last'.col]
          /\ \A b \in BoardSet, r \in Idx, c \in Idx :
               <<b, r, c>> # <<last'.board, last'.row, last'.col>>
                 => state'.publiclyVisible[b][r][c] = state.publiclyVisible[b][r][c]
     ELSE state'.publiclyVisible = state.publiclyVisible
  /\ (last'.op = "applyMove" /\ last'.outcome = "placed")
       => ~ state'.publiclyVisible[last'.board][last'.row][last'.col]

C27_RevealedOnlyByCollision == [][RevealedFrame]_vars

\* a second collision, on another board than the first: one more cell is
\* revealed and the first stays revealed
C27_Witness ==
  /\ last.op = "applyMove"
  /\ last.outcome = "collided"
  /\ <<last.board, last.row, last.col>> \in RevealedCells
  /\ Cardinality(RevealedCells) = 2
  /\ \E c \in RevealedCells : c[1] # last.board

(***************************************************************************)
(* C28  The Board Evaluator is a function of a board's recorded moves: for *)
(* the recorded moves of each board it returns piece P exactly when some   *)
(* row, column or diagonal of the 3x3 grid built from them holds three P   *)
(* entries, and returns no winner exactly when no line holds three equal   *)
(* entries.  (The evaluator reads the recorded moves and writes nothing,   *)
(* so a second call on the same moves returns the same result.)            *)
(***************************************************************************)
EvaluatorMatchesLines ==
  \A board \in BoardSet :
    LET winner == _getBoardWinner(state.moves, board)
    IN  /\ \A piece \in {"X", "O"} : winner = piece <=> HasLine(board, piece)
        /\ winner = undefined <=> ~ BoardWon(board)

C28_EvaluatorMatchesLines == EvaluatorMatchesLines

\* O holds the diagonal from (0,2) to (2,0) of board A, the last line the
\* evaluator looks at, and the evaluator returns O
C28_Witness ==
  /\ {<<0, 2>>, <<1, 1>>, <<2, 0>>} \subseteq CellsOf("A", "O")
  /\ _getBoardWinner(state.moves, "A") = "O"
  /\ CellsOf("A", "X") # {}

(***************************************************************************)
(* C29  The board view built for a player from the state snapshot shows    *)
(* every recorded move of the player's own piece and shows the opponent's  *)
(* piece at a cell only if the cell is revealed; the view is the same as   *)
(* the view of the snapshot from which the opponent's unrevealed moves     *)
(* have been taken out, so two histories that differ only in unrevealed    *)
(* opponent placements give the player the same view.                      *)
(***************************************************************************)
\* the snapshot without the moves of the other piece at unrevealed cells
Hidden(st, player) ==
  [st EXCEPT !.moves =
     SelectSeq(@, LAMBDA m : \/ m.gamePiece = PieceOf(st, player)
                             \/ st.publiclyVisible[m.board][m.row][m.col])]

ViewHidesUnrevealed ==
  \A player \in Players :
    LET view == BoardView(state, player)
        piece == PieceOf(state, player)
    IN  /\ \A i \in DOMAIN state.moves :
             state.moves[i].gamePiece = piece
               => view[state.moves[i].board][state.moves[i].row]
                      [state.moves[i].col] = piece
        /\ \A board \in BoardSet, row \in Idx, col \in Idx :
             (view[board][row][col] # undefined /\ view[board][row][col] # piece)
               => state.publiclyVisible[board][row][col]
        /\ BoardView(Hidden(state, player), player) = view

C29_ViewHidesUnrevealed == ViewHidesUnrevealed

\* the player with piece X has a move of its own, sees one piece of O at a
\* revealed cell and does not see another at an unrevealed cell
C29_Witness ==
  /\ state.x # undefined
  /\ \E i \in DOMAIN state.moves : state.moves[i].gamePiece = "X"
  /\ \E i, j \in DOMAIN state.moves :
       LET shown == state.moves[i]
           hid == state.moves[j]
           view == BoardView(state, state.x)
       IN  /\ shown.gamePiece = "O"
           /\ hid.gamePiece = "O"
           /\ state.publiclyVisible[shown.board][shown.row][shown.col]
           /\ view[shown.board][shown.row][shown.col] = "O"
           /\ ~ state.publiclyVisible[hid.board][hid.row][hid.col]
           /\ view[hid.board][hid.row][hid.col] = undefined

(***************************************************************************)
(* C30  The controller's moveCount (the number of recorded moves plus its  *)
(* collision count) equals the engine's attempt counter after every update *)
(* it has processed: a controller that agrees with the engine before a     *)
(* step agrees after it, whatever the step, a repeated collision on the    *)
(* same cell included; and so, while the match is in progress, whoseTurn   *)
(* names the seat whose applyMove the engine accepts.                      *)
(***************************************************************************)
\* the collision count of a controller that agrees with the engine
AgreedCount == _moveCount - Len(state.moves)

ControllerFollows ==
  LET collisionCount == AgreedCount + _updateFrom(state, state')
  IN  /\ moveCount(state', collisionCount) = _moveCount'
      /\ state'.status = "IN_PROGRESS"
           => whoseTurn(state', collisionCount)
                = IF _moveCount' % 2 = 0 THEN state'.x ELSE state'.o

C30_ControllerCountsAttempts == [][ControllerFollows]_vars

\* the controller follows every step but a collision at a cell that was
\* publicly visible already
ControllerFollowsFirstCollisions ==
  [][(last'.outcome = "collided"
        => ~ state.publiclyVisible[last'.board][last'.row][last'.col])
     => ControllerFollows]_vars

(***************************************************************************)
(* C31  No deadlock: in every reachable state with status IN_PROGRESS some *)
(* board that is not won has a cell with no recorded move, and the         *)
(* applyMove of the seat on turn at such a cell is accepted as a           *)
(* placement.                                                              *)
(***************************************************************************)
\* the cells with no recorded move on boards that no piece has won
FreeCells ==
  {cell \in BoardSet \X Idx \X Idx :
     /\ ~ BoardWon(cell[1])
     /\ ~ Recorded(cell[1], cell[2], cell[3], "X")
     /\ ~ Recorded(cell[1], cell[2], cell[3], "O")}

PlayerOnTurn == IF OnTurn("X") THEN state.x ELSE state.o

C31_NoDeadlock ==
  state.status = "IN_PROGRESS"
    => /\ FreeCells # {}
       /\ \A cell \in FreeCells :
            LET res == applyMove(Game, PlayerOnTurn, cell[1], cell[2], cell[3])
            IN  res.err = "none" /\ res.outcome = "placed"

\* a match in progress on which a single cell is left to play, after a
\* placement
C31_Witness ==
  /\ state.status = "IN_PROGRESS"
  /\ last.op = "applyMove"
  /\ last.outcome = "placed"
  /\ Cardinality(FreeCells) = 1

(***************************************************************************)
(* C32  In every reachable state each cell (board, row, col) holds at most *)
(* one recorded move, whatever the piece (X and O never both have a        *)
(* recorded move at the same cell), so the number of recorded moves never  *)
(* exceeds 27 and a board with 9 recorded moves has every cell occupied.   *)
(***************************************************************************)
SameCell(m, n) == m.board = n.board /\ m.row = n.row /\ m.col = n.col

C32_OneMovePerCell ==
  /\ \A i, j \in DOMAIN state.moves :
       SameCell(state.moves[i], state.moves[j]) => i = j
  /\ \A board \in BoardSet, row \in Idx, col \in Idx :
       ~ (Recorded(board, row, col, "X") /\ Recorded(board, row, col, "O"))
  /\ Len(state.moves) <= 27
  /\ \A board \in BoardSet :
       Len(BoardMoves(state.moves, board)) = 9
         => \A row \in Idx, col \in Idx :
              Recorded(board, row, col, "X") \/ Recorded(board, row, col, "O")

\* the three boards are full: 27 moves are recorded, 9 on each board
C32_Witness ==
  /\ Len(state.moves) = 27
  /\ \A board \in BoardSet : Len(BoardMoves(state.moves, board)) = 9
  /\ last.op = "applyMove"
  /\ last.outcome = "placed"

(***************************************************************************)
(* C33  In every reachable state a revealed cell is an occupied cell: a    *)
(* recorded move exists at every publicly visible cell; and while both     *)
(* seats are filled a revealed cell never goes back to false.              *)
(***************************************************************************)
RevealedIsOccupied ==
  \A cell \in RevealedCells :
     \/ Recorded(cell[1], cell[2], cell[3], "X")
     \/ Recorded(cell[1], cell[2], cell[3], "O")

RevealedKept ==
  (state.x # undefined /\ state.o # undefined)
     => \A cell \in RevealedCells :
          state'.publiclyVisible[cell[1]][cell[2]][cell[3]]

C33_RevealedIsOccupied == []RevealedIsOccupied /\ [][RevealedKept]_vars

\* a seat forfeits a match with a revealed cell: the cell stays revealed
C33_Witness ==
  /\ last.op = "leave"
  /\ last.outcome = "forfeit"
  /\ RevealedCells # {}
  /\ RevealedIsOccupied

(***************************************************************************)
(* C34  Scores are monotone and only the mover can score: a placement by   *)
(* the seat with piece P never changes the score of the other piece and    *)
(* raises the score of P by 0 or 1; a collision, a rejected call, a        *)
(* forfeit and a join change neither score; so neither score decreases     *)
(* while both seats are filled.  The same for the scores the engine keeps  *)
(* and the scores it publishes.                                            *)
(***************************************************************************)
ScoresUnchanged ==
  /\ state'.xScore = state.xScore
  /\ state'.oScore = state.oScore
  /\ _xScore' = _xScore
  /\ _oScore' = _oScore

ScoreStep ==
  /\ IF last'.op = "applyMove" /\ last'.outcome = "placed"
     THEN IF lastMover' = "X"
          THEN /\ state'.oScore = state.oScore
               /\ _oScore' = _oScore
               /\ state'.xScore - state.xScore \in {0, 1}
               /\ _xScore' - _xScore \in {0, 1}
          ELSE /\ state'.xScore = state.xScore
               /\ _xScore' = _xScore
               /\ state'.oScore - state.oScore \in {0, 1}
               /\ _oScore' - _oScore \in {0, 1}
     ELSE (\/ last'.outcome \in {"collided", "forfeit", "joined"}
           \/ last'.err # "none") => ScoresUnchanged
  /\ (state.x # undefined /\ state.o # undefined)
       => /\ state'.xScore >= state.xScore
          /\ state'.oScore >= state.oScore
          /\ _xScore' >= _xScore
          /\ _oScore' >= _oScore

C34_OnlyMoverScores == [][ScoreStep]_vars

\* O has just completed a line on a board while X had won another: O has
\* one point more and X keeps its own
C34_Witness ==
  /\ last.op = "applyMove"
  /\ last.outcome = "placed"
  /\ lastMover = "O"
  /\ HasLine(last.board, "O")
  /\ state.oScore = 1
  /\ state.xScore = 1

(***************************************************************************)
(* C35  In every reachable OVER state that was reached by play, with no    *)
(* leave call made on the match, winner agrees with the scores: winner is  *)
(* the player of seat X iff xScore > oScore, the player of seat O iff      *)
(* oScore > xScore, and undefined iff xScore = oScore.  A placement that   *)
(* ends the match leaves such a state, and every later call but a leave    *)
(* keeps it.                                                               *)
(***************************************************************************)
WinnerAgrees(st) ==
  /\ st.winner = st.x <=> st.xScore > st.oScore
  /\ st.winner = st.o <=> st.oScore > st.xScore
  /\ st.winner = undefined <=> st.xScore = st.oScore

EndedByPlayAgrees ==
  (state.status = "OVER" /\ last.op = "applyMove" /\ last.outcome = "placed")
    => WinnerAgrees(state)

AgreesUntilLeave ==
  (state.status = "OVER" /\ WinnerAgrees(state) /\ last'.op # "leave")
    => state'.status = "OVER" /\ WinnerAgrees(state')

C35_WinnerAgreesWithScores ==
  /\ []EndedByPlayAgrees
  /\ [][AgreesUntilLeave]_vars

\* the match has ended by play with one point each: there is no winner
C35_Witness ==
  /\ state.status = "OVER"
  /\ last.op = "applyMove"
  /\ last.outcome = "placed"
  /\ state.xScore = 1
  /\ state.oScore = 1
  /\ state.winner = undefined
  /\ state.x # undefined
  /\ state.o # undefined

(***************************************************************************)
(* C36  In every reachable state the attempt counter equals the number of  *)
(* recorded moves plus the number of collisions accepted since the match   *)
(* started: every step adds to the counter the moves it records plus one   *)
(* if it is a collision; hence the counter is at least the number of       *)
(* recorded moves, with equality iff no collision has occurred (no cell is *)
(* revealed).                                                              *)
(***************************************************************************)
AttemptStep ==
  _moveCount' - _moveCount
    = (Len(state'.moves) - Len(state.moves))
        + (IF last'.op = "applyMove" /\ last'.outcome = "collided"
           THEN 1 ELSE 0)

CountAtLeastMoves ==
  /\ _moveCount >= Len(state.moves)
  /\ _moveCount = Len(state.moves) <=> RevealedCells = {}

C36_AttemptsAreMovesPlusCollisions ==
  /\ []CountAtLeastMoves
  /\ [][AttemptStep]_vars

\* two collisions have been accepted: the counter is two ahead of the moves
C36_Witness ==
  /\ last.op = "applyMove"
  /\ last.outcome = "collided"
  /\ Len(state.moves) >= 2
  /\ _moveCount = Len(state.moves) + 2

(***************************************************************************)
(* C37  Termination: an execution holds at most 27 placements (every       *)
(* placement records one move and no more than 27 moves are ever           *)
(* recorded), and an execution in which the seat to move keeps making      *)
(* placements reaches status OVER; a match with both seats stays           *)
(* IN_PROGRESS for ever only by collisions or inactivity without end.      *)
(***************************************************************************)
PlacementRecordsOne ==
  (last'.op = "applyMove" /\ last'.outcome = "placed")
     => Len(state'.moves) = Len(state.moves) + 1

C37_Termination ==
  /\ [](Len(state.moves) <= 27)
  /\ [][PlacementRecordsOne]_vars
  /\ <>(state.status = "OVER")

\* the match has ended by a placement made after the collisions explored
C37_Witness ==
  /\ state.status = "OVER"
  /\ last.op = "applyMove"
  /\ last.outcome = "placed"
  /\ budget = 0

(***************************************************************************)
(* C38  The game area records each match that reaches OVER with both seats *)
(* filled in its history exactly once, with the xScore and oScore of the   *)
(* state in which it became OVER, however many further commands (such as   *)
(* LeaveGame by either player after the end) are processed for that match: *)
(* the history grows by one entry at the step that makes the current match *)
(* OVER and at no other step, and no entry is changed.                     *)
(***************************************************************************)
Result(gameID, st) ==
  [gameID |-> gameID,
   scores |-> (st.x :> st.xScore) @@ (st.o :> st.oScore)]

RecordedOnce ==
  /\ \A i, j \in DOMAIN _history :
       _history[i].gameID = _history[j].gameID => i = j
  /\ (_game # undefined /\ state.status = "OVER")
       => /\ state.x # undefined
          /\ state.o # undefined
          /\ \E i \in DOMAIN _history : _history[i] = Result(_game, state)

BecomesOver ==
  /\ state'.status = "OVER"
  /\ state.status # "OVER" \/ _game' # _game

HistoryStep ==
  /\ SubSeq(_history', 1, Len(_history)) = _history
  /\ IF BecomesOver
     THEN _history' = Append(_history, Result(_game', state'))
     ELSE _history' = _history

JoinGameStep ==
  last'.op = "join"
    => IF _game = undefined \/ state.status = "OVER"
       THEN /\ _game' # _game
            /\ _game' # undefined
            /\ \A i \in DOMAIN _history : _history[i].gameID # _game'
            /\ last'.err = "none"
            /\ state'.x = last'.player
            /\ state'.o = undefined
            /\ state'.status = "WAITING_TO_START"
            /\ state'.moves = <<>>
            /\ _moveCount' = 0
       ELSE /\ _game' = _game
            /\ state' = _join(Game, last'.player).g.state
            /\ last'.err = _join(Game, last'.player).err

StaleCommandStep ==
  (last'.op \in {"applyMove", "leave"} /\ last'.gameID # _game)
    => /\ last'.err # "none"
       /\ UNCHANGED EngineVars
       /\ UNCHANGED AreaVars

C39_JoinGameReplacesOverMatch ==
  [][JoinGameStep /\ StaleCommandStep]_vars

\* the first match is over and recorded, a second one has been created with
\* its caller as X, and a GameMove carrying the id of the first is rejected
C39_Witness ==
  /\ _game = GameIdSeq[2]
  /\ Len(_history) = 1
  /\ _history[1].gameID = GameIdSeq[1]
  /\ state.x # undefined
  /\ state.status = "WAITING_TO_START"
  /\ last.op = "applyMove"
  /\ last.gameID = GameIdSeq[1]
  /\ last.err = "IdMismatch"

(***************************************************************************)
(* C40  The per-board sub-game mirrors the engine: in every reachable      *)
(* state the sub-game of board b holds exactly the recorded moves of board *)
(* b, in order, so its cell (row, col) shows the piece of the recorded     *)
(* move there and a collision never overwrites it, and its winner is the   *)
(* player of the seat whose piece the Board Evaluator reports for b.       *)
(***************************************************************************)
\* the recorded moves of the board, as a sub-game holds moves
MovesOfBoard(board) ==
  LET boardMoves == BoardMoves(state.moves, board)
  IN  [i \in 1 .. Len(boardMoves) |->
         [gamePiece |-> boardMoves[i].gamePiece,
          row |-> boardMoves[i].row,
          col |-> boardMoves[i].col]]

SubGameMirrors(board) ==
  LET sub == _games[board]
      reported == _getBoardWinner(state.moves, board)
  IN  /\ sub.moves = MovesOfBoard(board)
      /\ \A i, j \in DOMAIN sub.moves :
           (sub.moves[i].row = sub.moves[j].row
              /\ sub.moves[i].col = sub.moves[j].col) => i = j
      /\ sub.winner = IF reported = "X" THEN state.x
                      ELSE IF reported = "O" THEN state.o
                      ELSE undefined

C40_SubGamesMirror == \A board \in BoardSet : SubGameMirrors(board)

\* after a collision on a board with recorded moves, while the sub-game of
\* another board has the player of seat O as its winner
C40_Witness ==
  /\ last.op = "applyMove"
  /\ last.outcome = "collided"
  /\ Len(_games[last.board].moves) >= 2
  /\ \E board \in BoardSet \ {last.board} :
       /\ _games[board].winner = state.o
       /\ _getBoardWinner(state.moves, board) = "O"

====
